---------------------------- MODULE Spec2Model ----------------------------
(***************************************************************************)
(* Model of the six configuration validators of supercity-scripts:        *)
(*   end-news-double-points, lottery-rewards, main-reward-lines,           *)
(*   quests-weekly, rfm-offers, shop-offers  (src/<area>/script.py).       *)
(*                                                                         *)
(* Every validator is a class with the same shape: __init__ loads the      *)
(* documents and builds the indices, validate_all runs the phases in a     *)
(* fixed order, print_summary reports, and main() writes the CSV report    *)
(* and the detailed log.  The ledger (stats, errors, warnings, info_logs   *)
(* and the per-subject error map) is written by log_check, log_warning,    *)
(* log_error, log_info and print_header.                                   *)
(*                                                                         *)
(* Conventions of the model                                                *)
(*  - a CSV cell is a string; a CSV row is a function column -> string;    *)
(*  - a JSON value is tagged: I(n) an integer, S(s) a string, None;        *)
(*    JSON objects are functions key -> value, JSON arrays are sequences;  *)
(*    the JSON key "@id" is written id_at;                                 *)
(*  - a Python dict is a sequence of <<key, value>> entries in insertion   *)
(*    order (Python dicts keep insertion order);                           *)
(*  - timestamps and ANSI colours of log lines are left out; a log line    *)
(*    is a record of its kind and of the values formatted into it.         *)
(***************************************************************************)
EXTENDS Integers, Sequences, FiniteSets, TLC

VARIABLES
    variant,      \* which validator class runs
    input,        \* the files on disk and the command line flags
    self,         \* the validator's documents and indices (set by __init__)
    stats,        \* self.stats
    errors,       \* self.errors
    warnings,     \* self.warnings
    info_logs,    \* self.info_logs
    error_map,    \* self.config_errors / action_errors / quest_errors / offer_errors
    pc,           \* position of main()
    csv_file,     \* the CSV report on disk: [written, rows]
    log_file,     \* the detailed log on disk: [written, lines]
    raised,       \* the uncaught exception that ended the run ("none" otherwise)
    exit_status   \* process exit status (None while the process runs)

vars == <<variant, input, self, stats, errors, warnings, info_logs, error_map,
          pc, csv_file, log_file, raised, exit_status>>

-----------------------------------------------------------------------------
(* Python values *)

None == [t |-> "none"]
I(n) == [t |-> "int", v |-> n]
S(s) == [t |-> "str", v |-> s]
L(q) == [t |-> "list", v |-> q]

IsNone(x) == x.t = "none"

\* bool(x) of a tagged value: None, 0, "" and [] are falsy
Truthy(x) ==
    CASE x.t = "none" -> FALSE
      [] x.t = "int"  -> x.v # 0
      [] x.t = "str"  -> x.v # ""
      [] x.t = "list" -> x.v # <<>>
      [] x.t = "float" -> x.v # 0
      [] OTHER        -> TRUE

\* d.get(k, default) of a JSON object / CSV row
Get(d, k, default) == IF k \in DOMAIN d THEN d[k] ELSE default

Digits == <<"0", "1", "2", "3", "4", "5", "6", "7", "8", "9">>

CharAt(s, i) == SubSeq(s, i, i)

IsDigitChar(c) == \E k \in 1..10 : Digits[k] = c

DigitVal(c) == (CHOOSE k \in 1..10 : Digits[k] = c) - 1

\* str.isdigit(): non-empty and every character a digit
IsDigitStr(s) == Len(s) > 0 /\ \A i \in 1..Len(s) : IsDigitChar(CharAt(s, i))

RECURSIVE DigitsValue(_)
DigitsValue(s) ==
    IF Len(s) = 0 THEN 0
    ELSE 10 * DigitsValue(SubSeq(s, 1, Len(s) - 1)) + DigitVal(CharAt(s, Len(s)))

RECURSIVE LStrip(_)
LStrip(s) == IF Len(s) > 0 /\ CharAt(s, 1) = " " THEN LStrip(SubSeq(s, 2, Len(s))) ELSE s

RECURSIVE RStrip(_)
RStrip(s) ==
    IF Len(s) > 0 /\ CharAt(s, Len(s)) = " " THEN RStrip(SubSeq(s, 1, Len(s) - 1)) ELSE s

\* str.strip()
Strip(s) == LStrip(RStrip(s))

\* int(s) of a string: surrounding blanks and one sign are accepted, then
\* digits only; anything else is a ValueError (ok = FALSE)
IntOfStr(s) ==
    LET b == Strip(s)
        signed == Len(b) > 0 /\ CharAt(b, 1) \in {"-", "+"}
        body == IF signed THEN SubSeq(b, 2, Len(b)) ELSE b
    IN  IF IsDigitStr(body)
        THEN [ok |-> TRUE,
              v  |-> IF signed /\ CharAt(b, 1) = "-" THEN 0 - DigitsValue(body)
                     ELSE DigitsValue(body)]
        ELSE [ok |-> FALSE, v |-> 0]

\* int(x) of a tagged value: TypeError for None and lists (ok = FALSE)
IntOf(x) ==
    CASE x.t = "int" -> [ok |-> TRUE, v |-> x.v]
      [] x.t = "str" -> IntOfStr(x.v)
      [] OTHER       -> [ok |-> FALSE, v |-> 0]

RECURSIVE StrOfNat(_)
StrOfNat(n) == IF n < 10 THEN Digits[n + 1] ELSE StrOfNat(n \div 10) \o Digits[(n % 10) + 1]

\* str(x) of an integer or string value
StrOf(x) ==
    CASE x.t = "int"  -> IF x.v < 0 THEN "-" \o StrOfNat(0 - x.v) ELSE StrOfNat(x.v)
      [] x.t = "str"  -> x.v
      [] x.t = "none" -> "None"
      [] OTHER        -> "?"

\* ','.join(map(str, xs))
RECURSIVE JoinStr(_)
JoinStr(xs) ==
    IF xs = <<>> THEN ""
    ELSE IF Len(xs) = 1 THEN StrOf(xs[1])
    ELSE StrOf(xs[1]) \o "," \o JoinStr(Tail(xs))

\* re.search(r'\((\d+)\)', s): the digits of the leftmost "(digits)" group
ParenDigitsEnd(s, i) ==
    \* the position of the ")" closing a digit run that starts after s[i] = "("
    LET ends == {j \in (i + 2)..Len(s) :
                    /\ CharAt(s, j) = ")"
                    /\ \A k \in (i + 1)..(j - 1) : IsDigitChar(CharAt(s, k))}
    IN  ends

ParenInt(s) ==
    LET starts == {i \in 1..Len(s) : CharAt(s, i) = "(" /\ ParenDigitsEnd(s, i) # {}}
    IN  IF starts = {} THEN [ok |-> FALSE, v |-> ""]
        ELSE LET i == CHOOSE a \in starts : \A b \in starts : a <= b
                 j == CHOOSE a \in ParenDigitsEnd(s, i) : \A b \in ParenDigitsEnd(s, i) : a <= b
             IN  [ok |-> TRUE, v |-> SubSeq(s, i + 1, j - 1)]

\* re.search(r'techitem\((\d+)\)', s): the digits of the leftmost
\* "techitem(digits)" group
TechitemInt(s) ==
    LET starts == {i \in 9..Len(s) : /\ SubSeq(s, i - 8, i) = "techitem("
                                     /\ ParenDigitsEnd(s, i) # {}}
    IN  IF starts = {} THEN [ok |-> FALSE, v |-> ""]
        ELSE LET i == CHOOSE a \in starts : \A b \in starts : a <= b
                 j == CHOOSE a \in ParenDigitsEnd(s, i) : \A b \in ParenDigitsEnd(s, i) : a <= b
             IN  [ok |-> TRUE, v |-> SubSeq(s, i + 1, j - 1)]

\* 'needle' in s
Contains(s, needle) ==
    \E i \in 1..(Len(s) - Len(needle) + 1) : SubSeq(s, i, i + Len(needle) - 1) = needle

StartsWith(s, p) == Len(s) >= Len(p) /\ SubSeq(s, 1, Len(p)) = p

\* s.split(',')
RECURSIVE SplitComma(_)
SplitComma(s) ==
    LET commas == {i \in 1..Len(s) : CharAt(s, i) = ","}
    IN  IF commas = {} THEN <<s>>
        ELSE LET i == CHOOSE a \in commas : \A b \in commas : a <= b
             IN  <<SubSeq(s, 1, i - 1)>> \o SplitComma(SubSeq(s, i + 1, Len(s)))

\* the index of the first element of q that satisfies P, 0 when none does
FirstIdx(q, P(_)) ==
    LET hits == {i \in 1..Len(q) : P(q[i])}
    IN  IF hits = {} THEN 0 ELSE CHOOSE i \in hits : \A j \in hits : i <= j

\* the orders in which a set can be iterated
Orders(T) == {f \in [1..Cardinality(T) -> T] : \A i, j \in DOMAIN f : i # j => f[i] # f[j]}

SeqToSet(q) == {q[i] : i \in 1..Len(q)}

\* the orders in which set(q) can be iterated.  The language leaves the order
\* open.  In CPython a str is placed by a hash that is salted anew in every
\* process, so a set that holds a str has no fixed order, its ints included;
\* a small set of ints that fall into different slots of the table of 8 is
\* iterated in slot order (hash(n) = n).
SetOrders(q) ==
    LET T == SeqToSet(q)
        slot(e) == e.v % 8
        plain == /\ \A e \in T : e.t = "int" /\ e.v >= 0
                 /\ Cardinality(T) < 5
                 /\ \A a, b \in T : a # b => slot(a) # slot(b)
    IN  IF plain
        THEN {f \in Orders(T) : \A i, j \in DOMAIN f : i < j => slot(f[i]) < slot(f[j])}
        ELSE Orders(T)

EndsWith(s, p) == Len(s) >= Len(p) /\ SubSeq(s, Len(s) - Len(p) + 1, Len(s)) = p

\* s.rstrip('%')
RECURSIVE RStripPercent(_)
RStripPercent(s) ==
    IF Len(s) > 0 /\ CharAt(s, Len(s)) = "%" THEN RStripPercent(SubSeq(s, 1, Len(s) - 1))
    ELSE s

\* the characters of the strings of the model, in code point order
Alphabet == " $%(),-./0123456789:ABCDEFGHIJKLMNOPQRSTUVWXYZ_abcdefghijklmnopqrstuvwxyz"

CharCode(c) == CHOOSE i \in 1..Len(Alphabet) : CharAt(Alphabet, i) = c

\* a < b for strings (lexicographic by code point)
RECURSIVE StrLess(_, _)
StrLess(a, b) ==
    IF Len(b) = 0 THEN FALSE
    ELSE IF Len(a) = 0 THEN TRUE
    ELSE IF CharAt(a, 1) = CharAt(b, 1)
         THEN StrLess(SubSeq(a, 2, Len(a)), SubSeq(b, 2, Len(b)))
         ELSE CharCode(CharAt(a, 1)) < CharCode(CharAt(b, 1))

\* the list left in its own order
SortStrs_Unsorted(q) == q

\* list.sort() of a list of strings
RECURSIVE SortStrs(_)
SortStrs(q) ==
    IF Len(q) <= 1 THEN q
    ELSE LET m == CHOOSE i \in 1..Len(q) : \A j \in 1..Len(q) : ~StrLess(q[j], q[i])
         IN  <<q[m]>> \o SortStrs([k \in 1..(Len(q) - 1) |-> IF k < m THEN q[k] ELSE q[k + 1]])

\* ",".join(xs) of a list of strings
RECURSIVE JoinComma(_)
JoinComma(xs) ==
    IF xs = <<>> THEN ""
    ELSE IF Len(xs) = 1 THEN xs[1]
    ELSE xs[1] \o "," \o JoinComma(Tail(xs))

\* a float, held as an integer number of 1/10000
Fl(n) == [t |-> "float", v |-> n]

FloatScale == 10000

RECURSIVE Pow10(_)
Pow10(n) == IF n = 0 THEN 1 ELSE 10 * Pow10(n - 1)

\* float(s) of a decimal string "digits" or "digits.digits" (at most four
\* decimals), with an optional sign; anything else is a ValueError
FloatOfStr(s) ==
    LET b == Strip(s)
        neg == Len(b) > 0 /\ CharAt(b, 1) = "-"
        body == IF neg THEN SubSeq(b, 2, Len(b)) ELSE b
        dots == {i \in 1..Len(body) : CharAt(body, i) = "."}
        dot == IF dots = {} THEN Len(body) + 1 ELSE CHOOSE i \in dots : \A j \in dots : i <= j
        whole == SubSeq(body, 1, dot - 1)
        frac == SubSeq(body, dot + 1, Len(body))
        ok == /\ Cardinality(dots) <= 1
              /\ Len(whole) + Len(frac) > 0
              /\ \A i \in 1..Len(whole) : IsDigitChar(CharAt(whole, i))
              /\ \A i \in 1..Len(frac) : IsDigitChar(CharAt(frac, i))
              /\ Len(frac) <= 4
        mag == DigitsValue(whole) * FloatScale + DigitsValue(frac) * Pow10(4 - Len(frac))
    IN  IF ok THEN [ok |-> TRUE, v |-> IF neg THEN 0 - mag ELSE mag]
        ELSE [ok |-> FALSE, v |-> 0]

\* float(x) of a tagged value
FloatOf(x) ==
    CASE x.t = "int"   -> [ok |-> TRUE, v |-> x.v * FloatScale]
      [] x.t = "float" -> [ok |-> TRUE, v |-> x.v]
      [] x.t = "str"   -> FloatOfStr(x.v)
      [] OTHER         -> [ok |-> FALSE, v |-> 0]

Abs(n) == IF n < 0 THEN 0 - n ELSE n

\* the comparison with the tolerance included: abs(..) <= 0.001
PriceMatch_Inclusive(actual, expected) == Abs(actual - expected) * 1000 <= FloatScale

\* abs(actual_price - expected_price) < 0.001 on floats; the model computes
\* the difference of the two decimal values exactly
PriceMatch(actual, expected) == Abs(actual - expected) * 1000 < FloatScale

\* s.split(c) for a one-character separator
RECURSIVE SplitChar(_, _)
SplitChar(s, c) ==
    LET hits == {i \in 1..Len(s) : CharAt(s, i) = c}
    IN  IF hits = {} THEN <<s>>
        ELSE LET i == CHOOSE a \in hits : \A b \in hits : a <= b
             IN  <<SubSeq(s, 1, i - 1)>> \o SplitChar(SubSeq(s, i + 1, Len(s)), c)

\* s.replace(c, '') for a one-character c
RECURSIVE RemoveChar(_, _)
RemoveChar(s, c) ==
    IF Len(s) = 0 THEN ""
    ELSE (IF CharAt(s, 1) = c THEN "" ELSE CharAt(s, 1)) \o RemoveChar(SubSeq(s, 2, Len(s)), c)

UpperLetters == "ABCDEFGHIJKLMNOPQRSTUVWXYZ"

LowerLetters == "abcdefghijklmnopqrstuvwxyz"

LowerChar(c) ==
    IF \E i \in 1..26 : CharAt(UpperLetters, i) = c
    THEN CharAt(LowerLetters, CHOOSE i \in 1..26 : CharAt(UpperLetters, i) = c)
    ELSE c

\* str.lower()
RECURSIVE Lower(_)
Lower(s) == IF Len(s) = 0 THEN "" ELSE LowerChar(CharAt(s, 1)) \o Lower(SubSeq(s, 2, Len(s)))

-----------------------------------------------------------------------------
(* Python dict: insertion-ordered entries <<key, value>> *)

DictKeys(d) == [i \in 1..Len(d) |-> d[i][1]]

DictHas(d, k) == \E i \in 1..Len(d) : d[i][1] = k

DictGet(d, k) == d[CHOOSE i \in 1..Len(d) : d[i][1] = k][2]

\* d[k] = v that keeps the value of an existing key (first write wins)
DictSet_KeepFirst(d, k, v) == IF DictHas(d, k) THEN d ELSE Append(d, <<k, v>>)

\* d[k] = v: an existing key keeps its place and takes the new value
DictSet(d, k, v) ==
    IF DictHas(d, k)
    THEN [i \in 1..Len(d) |-> IF d[i][1] = k THEN <<k, v>> ELSE d[i]]
    ELSE Append(d, <<k, v>>)

\* d.setdefault(k, []).append(e)
DictAppend(d, k, e) ==
    IF DictHas(d, k) THEN DictSet(d, k, Append(DictGet(d, k), e))
    ELSE Append(d, <<k, <<e>>>>)


-----------------------------------------------------------------------------
(* The ledger: stats, errors, warnings, info_logs and the per-subject map.  *)
(* A ledger value Lg is the record of these five fields of the validator.   *)

Variants == {"end_news", "lottery", "main", "quests", "rfm", "shop"}

NewStats == [total_checks |-> 0, passed_checks |-> 0, failed_checks |-> 0, warning_checks |-> 0]

NewLedger == [stats |-> NewStats, errors |-> <<>>, warnings |-> <<>>,
              info_logs |-> <<>>, error_map |-> <<>>]

\* the validators whose log lines and error texts are prefixed by the subject
\* ("Action {id}: ", "Complexity {id}: ", "{offer_name}: ")
PrefixesSubject(v) == v \in {"main", "quests", "rfm", "shop"}

\* the validators whose error map entries carry a "tag" field
EntryHasTag(v) == v \in {"main", "quests", "rfm", "shop"}

\* the "(expected: .., actual: ..)" suffix: only when both are not None
ExtraInfo(expected, actual) ==
    IF ~IsNone(expected) /\ ~IsNone(actual) THEN <<expected, actual>> ELSE <<>>

CheckEntry(v, name, expected, actual, details, tag) ==
    IF EntryHasTag(v)
    THEN [check |-> name, expected |-> expected, actual |-> actual,
          details |-> details, tag |-> tag]
    ELSE [check |-> name, expected |-> expected, actual |-> actual, details |-> details]

log_info(Lg, message) ==
    [Lg EXCEPT !.info_logs = Append(@, [kind |-> "INFO", msg |-> message])]

print_header(Lg, text) ==
    [Lg EXCEPT !.info_logs = Append(@, [kind |-> "HEADER", msg |-> text])]

\* log_check that appends the line of a failed check only
log_check_PassNotLogged(Lg, v, id, name, result, expected, actual, details, tag) ==
    IF result
    THEN [Lg EXCEPT !.stats.total_checks = @ + 1,
                    !.stats.passed_checks = @ + 1]
    ELSE [Lg EXCEPT !.stats.total_checks = @ + 1,
                    !.stats.failed_checks = @ + 1,
                    !.error_map = DictAppend(@, id,
                                     CheckEntry(v, name, expected, actual, details, tag)),
                    !.errors = Append(@, [subject |-> IF PrefixesSubject(v) THEN id ELSE None,
                                          check |-> name,
                                          extra |-> ExtraInfo(expected, actual),
                                          details |-> IF Truthy(details) THEN details ELSE None]),
                    !.info_logs = Append(@, [kind |-> "CHECK:FAIL",
                                             subject |-> IF PrefixesSubject(v) THEN id ELSE None,
                                             check |-> name,
                                             extra |-> ExtraInfo(expected, actual)])]

\* log_check with the total counted on the passing branch only
log_check_TotalOnPassOnly(Lg, v, id, name, result, expected, actual, details, tag) ==
    IF result
    THEN [Lg EXCEPT !.stats.total_checks = @ + 1,
                    !.stats.passed_checks = @ + 1,
                    !.info_logs = Append(@, [kind |-> "CHECK:OK", subject |-> None,
                                             check |-> name, extra |-> <<>>])]
    ELSE [Lg EXCEPT !.stats.failed_checks = @ + 1,
                    !.info_logs = Append(@, [kind |-> "CHECK:FAIL", subject |-> None,
                                             check |-> name, extra |-> <<>>])]

log_check(Lg, v, id, name, result, expected, actual, details, tag) ==
    LET subject == IF PrefixesSubject(v) THEN id ELSE None
        line == [kind |-> IF result THEN "CHECK:OK" ELSE "CHECK:FAIL",
                 subject |-> subject, check |-> name,
                 extra |-> ExtraInfo(expected, actual)]
        error_msg == [subject |-> subject, check |-> name,
                      extra |-> ExtraInfo(expected, actual),
                      details |-> IF Truthy(details) THEN details ELSE None]
    IN  IF result
        THEN [Lg EXCEPT !.stats.total_checks = @ + 1,
                        !.stats.passed_checks = @ + 1,
                        !.info_logs = Append(@, line)]
        ELSE [Lg EXCEPT !.stats.total_checks = @ + 1,
                        !.stats.failed_checks = @ + 1,
                        !.error_map = DictAppend(@, id,
                                         CheckEntry(v, name, expected, actual, details, tag)),
                        !.errors = Append(@, error_msg),
                        !.info_logs = Append(@, line)]

\* the entry log_warning / log_error add to the per-subject map
NoteEntry(v, what, message) ==
    IF v = "lottery"
    THEN \* lottery: {"check": "Предупреждение" / "Ошибка", "details": message}
         [check |-> IF what = "WARNING" THEN "Warning" ELSE "Error",
          details |-> S(message)]
    ELSE [check |-> IF what = "WARNING" THEN "warning" ELSE "error",
          expected |-> None, actual |-> None, details |-> S(message), tag |-> what]

\* end-news: log_warning and log_error take check_id and never use it
NotesSubject(v, id) == v # "end_news" /\ ~IsNone(id)

log_warning(Lg, v, message, id) ==
    LET line == [kind |-> "WARNING",
                 subject |-> IF PrefixesSubject(v) THEN id ELSE None, msg |-> message]
        Lg1 == [Lg EXCEPT !.stats.warning_checks = @ + 1,
                          !.info_logs = Append(@, line),
                          !.warnings = Append(@, message)]
    IN  IF NotesSubject(v, id)
        THEN [Lg1 EXCEPT !.error_map = DictAppend(@, id, NoteEntry(v, "WARNING", message))]
        ELSE Lg1

log_error(Lg, v, message, id) ==
    LET line == [kind |-> "ERROR",
                 subject |-> IF PrefixesSubject(v) THEN id ELSE None, msg |-> message]
        Lg1 == [Lg EXCEPT !.info_logs = Append(@, line),
                          !.errors = Append(@, message)]
    IN  IF NotesSubject(v, id)
        THEN [Lg1 EXCEPT !.error_map = DictAppend(@, id, NoteEntry(v, "ERROR", message))]
        ELSE Lg1

-----------------------------------------------------------------------------
(* Calls made by a phase.  A phase of a validator reads the documents and   *)
(* the indices only, so it is modelled as the sequence of ledger calls it   *)
(* makes; an uncaught exception ends the sequence.                          *)

Check(id, name, result, expected, actual, details, tag) ==
    [op |-> "check", id |-> id, name |-> name, result |-> result, expected |-> expected,
     actual |-> actual, details |-> details, tag |-> tag]

Warn(message, id) == [op |-> "warning", msg |-> message, id |-> id]

Err(message, id) == [op |-> "error", msg |-> message, id |-> id]

Info(message) == [op |-> "info", msg |-> message]

Header(text) == [op |-> "header", msg |-> text]

Raise(exc) == [op |-> "raise", exc |-> exc]

ApplyCall(Lg, v, c) ==
    CASE c.op = "check"   -> log_check(Lg, v, c.id, c.name, c.result, c.expected,
                                       c.actual, c.details, c.tag)
      [] c.op = "warning" -> log_warning(Lg, v, c.msg, c.id)
      [] c.op = "error"   -> log_error(Lg, v, c.msg, c.id)
      [] c.op = "info"    -> log_info(Lg, c.msg)
      [] c.op = "header"  -> print_header(Lg, c.msg)
      [] OTHER            -> Lg

\* the calls up to the first raise, applied in order
RECURSIVE RunCalls(_, _, _)
RunCalls(Lg, v, calls) ==
    IF calls = <<>> THEN [lg |-> Lg, raised |-> "none"]
    ELSE IF Head(calls).op = "raise" THEN [lg |-> Lg, raised |-> Head(calls).exc]
    ELSE RunCalls(ApplyCall(Lg, v, Head(calls)), v, Tail(calls))

RECURSIVE Concat(_)
Concat(seqs) == IF seqs = <<>> THEN <<>> ELSE Head(seqs) \o Concat(Tail(seqs))

Ledger == [stats |-> stats, errors |-> errors, warnings |-> warnings,
           info_logs |-> info_logs, error_map |-> error_map]

SetLedger(Lg) ==
    /\ stats' = Lg.stats
    /\ errors' = Lg.errors
    /\ warnings' = Lg.warnings
    /\ info_logs' = Lg.info_logs
    /\ error_map' = Lg.error_map

NoFile == [written |-> FALSE, rows |-> <<>>]

FreshLedger ==
    /\ stats = NewStats
    /\ errors = <<>>
    /\ warnings = <<>>
    /\ info_logs = <<>>
    /\ error_map = <<>>

-----------------------------------------------------------------------------
(* SpecLedger: any sequence of log_check / log_warning / log_error calls    *)
(* on a freshly constructed validator of any of the six classes.            *)

MaxCalls == 3

LedgerIds == {None, I(1)}

\* (expected, actual) pairs given to log_check
LedgerVals == {<<None, None>>, <<S("x"), S("y")>>}

InitLedger ==
    /\ variant \in Variants
    /\ input = <<>>
    /\ self = <<>>
    /\ FreshLedger
    /\ pc = "ledger"
    /\ csv_file = NoFile
    /\ log_file = NoFile
    /\ raised = "none"
    /\ exit_status = None


LedgerFrame == UNCHANGED <<variant, input, self, pc, csv_file, log_file, raised, exit_status>>

LedgerLogCheck ==
    /\ pc = "ledger"
    /\ Len(info_logs) < MaxCalls
    /\ \E id \in LedgerIds, result \in BOOLEAN, ea \in LedgerVals :
          SetLedger(log_check(Ledger, variant, id, "check", result, ea[1], ea[2],
                              None, "TAG"))
    /\ LedgerFrame

LedgerLogWarning ==
    /\ pc = "ledger"
    /\ Len(info_logs) < MaxCalls
    /\ \E id \in LedgerIds : SetLedger(log_warning(Ledger, variant, "warning text", id))
    /\ LedgerFrame

LedgerLogError ==
    /\ pc = "ledger"
    /\ Len(info_logs) < MaxCalls
    /\ \E id \in LedgerIds : SetLedger(log_error(Ledger, variant, "error text", id))
    /\ LedgerFrame

NextLedger == LedgerLogCheck \/ LedgerLogWarning \/ LedgerLogError

SpecLedger == InitLedger /\ [][NextLedger]_vars

-----------------------------------------------------------------------------
(* A run of main(): files on disk, construction, phases, summary, reports.  *)

\* a file on disk: ok = FALSE when it is missing or does not parse
File(data) == [ok |-> TRUE, data |-> data]

Missing == [ok |-> FALSE, data |-> <<>>]

\* _load_json / _load_csv: the parsed document, or {} / [] after log_error
Load(file) == IF file.ok THEN file.data ELSE <<>>

LoadCalls(file, name) ==
    IF file.ok THEN <<Info("loaded " \o name)>>
    ELSE <<Err("load error " \o name, None)>>

\* the index sequences of the tables of at most n rows drawn from k candidates
IdxSeqs(n, k) == UNION {[1..m -> 1..k] : m \in 0..n}

Rows(R, ix) == [i \in 1..Len(ix) |-> R[ix[i]]]

\* a CSV table read with the given header: every row has exactly these columns
WithHeader(rows, cols) == [i \in 1..Len(rows) |-> [c \in cols |-> rows[i][c]]]

\* one step of main(): the calls are applied; an uncaught exception ends the
\* process with a traceback and exit status 1
Step(calls, next) ==
    LET r == RunCalls(Ledger, variant, calls)
    IN  /\ SetLedger(r.lg)
        /\ raised' = r.raised
        /\ IF r.raised = "none"
           THEN pc' = next /\ exit_status' = exit_status
           ELSE pc' = "done" /\ exit_status' = I(1)

-----------------------------------------------------------------------------
(* end-news-double-points: EndNewsDoublePointsValidator *)

EndNewsNarrow == {"alias", "from", "to"}

EndNewsWide == {"alias", "from", "to", "any", "not", "MultiplierTurnOn"}

EndNewsRow(alias, from, to, any, not, turn_on) ==
    [alias |-> alias, from |-> from, to |-> to, any |-> any, not |-> not,
     MultiplierTurnOn |-> turn_on]

EndNewsRows == <<
    EndNewsRow("end news", "d1", "d2", "1,2", "3", ""),
    EndNewsRow("double points(2)", "d1", "d2", "", "", ""),
    EndNewsRow("double points(2)", "d1", "d3", "", "", "d1"),
    EndNewsRow("itemsToCashExchange(15)", "", "", "", "", ""),
    EndNewsRow("itemsToCashExchange", "", "", "", "", "") >>

\* a filter of end-news-promo.json; compare and items stand for
\* conditions.actions.compare and conditions.actions.items
EndNewsFilter(compare, items) ==
    [type |-> S("ActionContain"), compare |-> S(compare), items |-> items]

EndNewsPromoFiles == <<
    Missing,
    File([from |-> S("d1"), to |-> S("d2"),
          filters |-> <<EndNewsFilter("any", <<I(1), I(2)>>), EndNewsFilter("not", <<I(3)>>)>>]),
    File([from |-> S("d1"), to |-> S("d3"),
          filters |-> <<EndNewsFilter("any", <<I(1)>>)>>]),
    File([from |-> S("d1"), to |-> S("d2"),
          filters |-> <<EndNewsFilter("not", <<I(3)>>)>>]) >>

DoublePointsPromoFiles == <<
    Missing,
    File([from |-> S("d1"), to |-> S("d2")]) >>

EndNewsMainPromoFiles == <<
    Missing,
    File([parameters |-> [seasonPassActions |-> <<I(3)>>,
                          promotionAwardMultiplierTurnOn |-> S("d1"),
                          promotionAwardMultiplier |-> S("2"),
                          itemsToCashExchange |-> I(15)]]) >>

EndNews_init(inp) ==
    LET requirements == Load(inp.requirements)
        RECURSIVE ByAlias(_, _)
        ByAlias(i, idx) ==
            IF i > Len(requirements) THEN idx
            ELSE LET req == requirements[i]
                 IN  IF "alias" \in DOMAIN req /\ req["alias"] # ""
                     THEN ByAlias(i + 1, DictSet(idx, req["alias"], req))
                     ELSE ByAlias(i + 1, idx)
    IN  [self  |-> [end_news_promo        |-> Load(inp.end_news_promo),
                    double_points_promo   |-> Load(inp.double_points_promo),
                    promo                 |-> Load(inp.promo),
                    requirements          |-> requirements,
                    requirements_by_alias |-> ByAlias(1, <<>>)],
         calls |-> Concat(<< <<Header("validation"), Info("files"),
                               Info("end news promo"), Info("double points promo"),
                               Info("promo"), Info("requirements")>>,
                             LoadCalls(inp.end_news_promo, "end-news-promo.json"),
                             LoadCalls(inp.double_points_promo, "double-points-promo.json"),
                             LoadCalls(inp.promo, "promo.json"),
                             LoadCalls(inp.requirements, "requirements.csv") >>)]

\* next((f for f in filters if type == 'ActionContain' and compare == c), None)
EndNewsFindFilter(filters, c) ==
    LET hits == {i \in 1..Len(filters) :
                    /\ Get(filters[i], "type", None) = S("ActionContain")
                    /\ Get(filters[i], "compare", None) = S(c)}
    IN  IF hits = {} THEN [found |-> FALSE, items |-> <<>>]
        ELSE [found |-> TRUE,
              items |-> Get(filters[CHOOSE i \in hits : \A j \in hits : i <= j],
                            "items", <<>>)]

validate_end_news(sf) ==
    IF ~DictHas(sf.requirements_by_alias, "end news")
    THEN <<Err("no requirements for 'end news'", None)>>
    ELSE
    LET end_news_req == DictGet(sf.requirements_by_alias, "end news")
        req_from == Get(end_news_req, "from", "")
        req_to == Get(end_news_req, "to", "")
        promo_from == Get(sf.end_news_promo, "from", S(""))
        promo_to == Get(sf.end_news_promo, "to", S(""))
        filters == Get(sf.end_news_promo, "filters", <<>>)
        any_filter == EndNewsFindFilter(filters, "any")
        not_filter == EndNewsFindFilter(filters, "not")
        req_any == Get(end_news_req, "any", "")
        \* req_not is assigned in the branch of a found 'not' filter only
        req_not == Get(end_news_req, "not", "")
        season_pass_actions == Get(Get(sf.promo, "parameters", <<>>), "seasonPassActions", <<>>)
    IN  Concat(<<
          <<Check(S("end_news_dates_from"), "end news from", S(req_from) = promo_from,
                  S(req_from), promo_from, None, ""),
            Check(S("end_news_dates_to"), "end news to", S(req_to) = promo_to,
                  S(req_to), promo_to, None, "")>>,
          IF any_filter.found
          THEN <<Check(S("end_news_any_condition"), "end news any",
                       req_any = JoinStr(any_filter.items),
                       S(req_any), S(JoinStr(any_filter.items)), None, "")>>
          ELSE <<Err("no ActionContain filter with compare='any'", None)>>,
          IF not_filter.found
          THEN <<Check(S("end_news_not_condition"), "end news not",
                       req_not = JoinStr(not_filter.items),
                       S(req_not), S(JoinStr(not_filter.items)), None, "")>>
          ELSE <<Err("no ActionContain filter with compare='not'", None)>>,
          IF season_pass_actions # <<>>
          THEN IF not_filter.found
               THEN <<Check(S("end_news_season_pass_actions"), "not vs seasonPassActions",
                            req_not = JoinStr(season_pass_actions),
                            S(req_not), S(JoinStr(season_pass_actions)),
                            S("'not' must match seasonPassActions"), "")>>
               ELSE <<Raise("UnboundLocalError")>>
          ELSE <<Err("no seasonPassActions in promo", None)>> >>)

\* x or "not found in main promo"
OrNotFound(x) == IF Truthy(x) THEN x ELSE S("not found in main promo")

\* the turn-on date compared although the requirements give none
DoublePointsTurnOnCalls_Unconditional(req_multiplier_date, promo_multiplier_date) ==
    <<Check(S("double_points_multiplier_date"), "multiplier turn-on date",
            S(req_multiplier_date) = promo_multiplier_date,
            S(req_multiplier_date), OrNotFound(promo_multiplier_date),
            S("promotionAwardMultiplierTurnOn in promo.json"), "")>>

\* if req_multiplier_date: the turn-on date of the requirements against
\* promotionAwardMultiplierTurnOn
DoublePointsTurnOnCalls(req_multiplier_date, promo_multiplier_date) ==
    IF req_multiplier_date # ""
    THEN <<Check(S("double_points_multiplier_date"), "multiplier turn-on date",
                 S(req_multiplier_date) = promo_multiplier_date,
                 S(req_multiplier_date), OrNotFound(promo_multiplier_date),
                 S("promotionAwardMultiplierTurnOn in promo.json"), "")>>
    ELSE <<>>

validate_double_points(sf) ==
    IF ~DictHas(sf.requirements_by_alias, "double points(2)")
    THEN <<Err("no requirements for 'double points(2)'", None)>>
    ELSE
    LET double_points_req == DictGet(sf.requirements_by_alias, "double points(2)")
        req_from == Get(double_points_req, "from", "")
        req_to == Get(double_points_req, "to", "")
        promo_from == Get(sf.double_points_promo, "from", S(""))
        promo_to == Get(sf.double_points_promo, "to", S(""))
        parameters == Get(sf.promo, "parameters", <<>>)
        req_multiplier_date == Get(double_points_req, "MultiplierTurnOn", "")
        promo_multiplier_date == Get(parameters, "promotionAwardMultiplierTurnOn", S(""))
        match == ParenInt(Get(double_points_req, "alias", ""))
        promo_multiplier_value == StrOf(Get(parameters, "promotionAwardMultiplier", S("")))
    IN  Concat(<<
          <<Check(S("double_points_dates_from"), "double points from",
                  S(req_from) = promo_from, S(req_from), promo_from, None, ""),
            Check(S("double_points_dates_to"), "double points to",
                  S(req_to) = promo_to, S(req_to), promo_to, None, "")>>,
          DoublePointsTurnOnCalls(req_multiplier_date, promo_multiplier_date),
          IF match.ok
          THEN <<Check(S("double_points_multiplier_value"), "multiplier value",
                       match.v = promo_multiplier_value,
                       S(match.v), OrNotFound(S(promo_multiplier_value)),
                       S("promotionAwardMultiplier in promo.json"), "")>>
          ELSE <<Warn("no multiplier in alias 'double points(2)'", None)>> >>)

validate_items_to_cash_exchange(sf) ==
    LET idx == sf.requirements_by_alias
        partial == {i \in 1..Len(idx) : Contains(idx[i][1], "itemsToCashExchange")}
        found == DictHas(idx, "itemsToCashExchange(15)") \/ partial # {}
        exchange_req ==
            IF DictHas(idx, "itemsToCashExchange(15)")
            THEN DictGet(idx, "itemsToCashExchange(15)")
            ELSE idx[CHOOSE i \in partial : \A j \in partial : i <= j][2]
    IN  IF ~found THEN <<Err("no requirements for 'itemsToCashExchange'", None)>>
        ELSE
        LET match == ParenInt(Get(exchange_req, "alias", ""))
            promo_exchange_rate ==
                StrOf(Get(Get(sf.promo, "parameters", <<>>), "itemsToCashExchange", S("")))
        IN  IF match.ok
            THEN <<Check(S("items_to_cash_exchange_rate"), "exchange rate",
                         match.v = promo_exchange_rate,
                         S(match.v), OrNotFound(S(promo_exchange_rate)),
                         S("itemsToCashExchange in promo.json"), "")>>
            ELSE <<Warn("no exchange rate in alias for itemsToCashExchange", None)>>

\* the rows save_report_to_csv writes: one per map entry whose check id
\* starts with one of the three prefixes, in three passes over the map
EndNewsCsvRows(sf, m) ==
    LET aliasOf(k, default) ==
            IF DictHas(sf.requirements_by_alias, k)
            THEN Get(DictGet(sf.requirements_by_alias, k), "alias", default)
            ELSE default
        pass(prefix, name) ==
            Concat([i \in 1..Len(m) |->
                IF m[i][1].t = "str" /\ StartsWith(m[i][1].v, prefix)
                THEN [j \in 1..Len(m[i][2]) |->
                        [check |-> m[i][2][j].check, id |-> S(name),
                         expected |-> m[i][2][j].expected, actual |-> m[i][2][j].actual,
                         details |-> m[i][2][j].details]]
                ELSE <<>>])
    IN  pass("end_news", aliasOf("end news", "end_news"))
        \o pass("double_points", aliasOf("double points(2)", "double_points"))
        \o pass("items_to_cash", "itemsToCashExchange")

-----------------------------------------------------------------------------
(* lottery-rewards: LotteryRewardsValidator.  The Russian words the code    *)
(* tests for in check names are transliterated: "Ekshen", "Nagrada".        *)

LotteryRow(action, type, count, itemId, probability) ==
    [action |-> action, alias |-> "", type |-> type, count |-> count,
     itemId |-> itemId, probability |-> probability]

LotteryRows == <<
    LotteryRow("101", "item", "1", "5", "50"),
    LotteryRow("", "Buff", "", "9", "50"),
    LotteryRow(" 102", "item", "2", "", "10"),
    LotteryRow("101", "item", "3", "6", "20") >>

LotteryAction101 ==
    [id_at |-> I(101),
     awardPackets |-> <<[probability |-> I(50),
                         awards |-> <<[type |-> S("Item"), count |-> I(1), itemId |-> I(5)],
                                      [type |-> S("buff"), count |-> I(1), id |-> I(9)]>>]>>,
     needAction |-> S("7")]

LotteryAction102 == [id_at |-> I(102), awardPackets |-> <<>>]

LotteryAction102b ==
    [id_at |-> S("102"),
     awardPackets |-> <<[probability |-> I(10),
                         awards |-> <<[type |-> S("item"), count |-> I(3), itemId |-> I(6)]>>]>>,
     needAction |-> I(7)]

LotteryActionsFiles == <<
    Missing,
    File(<<LotteryAction101>>),
    File(<<LotteryAction101, LotteryAction102>>),
    File(<<LotteryAction102b, [awardPackets |-> <<>>]>>) >>

LotteryPromoFiles == <<
    Missing,
    File([awards |-> <<I(101)>>, parameters |-> [seasonPassActions |-> <<I(7)>>]]),
    File([awards |-> <<I(101), I(102)>>]) >>

_get_season_pass_actions(promo) ==
    LET season_pass_actions == Get(Get(promo, "parameters", <<>>), "seasonPassActions", <<>>)
    IN  IF season_pass_actions = <<>>
        THEN [value |-> None, calls |-> <<Warn("no seasonPassActions in promo.json", None)>>]
        ELSE [value |-> S(JoinStr(season_pass_actions)), calls |-> <<>>]

\* the grouping loop of __init__: a row with an action id opens a group, a
\* row without one continues the open group
RECURSIVE LotteryGroup(_, _, _, _, _)
LotteryGroup(requirements, i, idx, current_action_id, current_group) ==
    IF i > Len(requirements)
    THEN IF current_action_id # "" /\ current_group # <<>>
         THEN DictSet(idx, current_action_id, current_group)
         ELSE idx
    ELSE LET req == requirements[i]
             action_id == Strip(Get(req, "action", ""))
         IN  IF action_id # ""
             THEN LotteryGroup(requirements, i + 1,
                               IF current_action_id # ""
                               THEN DictSet(idx, current_action_id, current_group)
                               ELSE idx,
                               action_id, <<req>>)
             ELSE LotteryGroup(requirements, i + 1, idx, current_action_id,
                               IF current_action_id # ""
                               THEN Append(current_group, req)
                               ELSE current_group)

RECURSIVE LotteryActionsById(_, _, _)
LotteryActionsById(actions, i, idx) ==
    IF i > Len(actions) THEN idx
    ELSE LET action_id == Get(actions[i], "id_at", None)
         IN  LotteryActionsById(actions, i + 1,
                                IF Truthy(action_id)
                                THEN DictSet(idx, StrOf(action_id), actions[i])
                                ELSE idx)

Lottery_init(inp) ==
    LET promo == Load(inp.promo)
        requirements == Load(inp.requirements)
        actions == Load(inp.actions)
        season == _get_season_pass_actions(promo)
    IN  [self  |-> [promo |-> promo, requirements |-> requirements, actions |-> actions,
                    json_output |-> inp.json_output,
                    season_pass_actions |-> season.value,
                    requirements_by_action_id |-> LotteryGroup(requirements, 1, <<>>, "", <<>>),
                    actions_by_id |-> LotteryActionsById(actions, 1, <<>>)],
         calls |-> Concat(<< <<Header("lottery validation"), Info("files"), Info("promo"),
                               Info("requirements"), Info("actions")>>,
                             LoadCalls(inp.promo, "promo.json"),
                             LoadCalls(inp.requirements, "requirements.csv"),
                             LoadCalls(inp.actions, "actions.json"),
                             season.calls,
                             IF ~IsNone(season.value) THEN <<Info("season pass ids")>>
                             ELSE <<>> >>)]

PresentOrAbsent(b) == IF b THEN S("present") ELSE S("absent")

validate_actions_presence(sf) ==
    LET action_ids == DictKeys(sf.requirements_by_action_id)
        awards == Get(sf.promo, "awards", <<>>)
        in_promo(id) == \E k \in 1..Len(awards) : StrOf(awards[k]) = id
    IN  Concat(<<
          <<Info("actions in requirements")>>,
          [i \in 1..Len(action_ids) |->
              Check(S(action_ids[i]), "Ekshen " \o action_ids[i] \o " present in promo (awards)",
                    in_promo(action_ids[i]), S("present"),
                    PresentOrAbsent(in_promo(action_ids[i])), None, "")],
          [i \in 1..Len(action_ids) |->
              Check(S(action_ids[i]), "Ekshen " \o action_ids[i] \o " present in actions config",
                    DictHas(sf.actions_by_id, action_ids[i]), S("present"),
                    PresentOrAbsent(DictHas(sf.actions_by_id, action_ids[i])), None, "")] >>)

\* the id of every award read from "itemId", buff awards included
LotteryAwardMatches_ItemIdOnly(award, req) ==
    LET item_type == Get(req, "type", "")
        count == Get(req, "count", "")
        item_id == Get(req, "itemId", "")
        award_type == Get(award, "type", S("")).v
        award_count == StrOf(Get(award, "count", S("")))
        award_item_id == StrOf(Get(award, "itemId", S("")))
    IN  /\ item_type = "" \/ Lower(award_type) = Lower(item_type)
        /\ count = "" \/ award_count = count
        /\ item_id = "" \/ award_item_id = item_id

\* the award of one packet matches the requirement row: empty requirement
\* fields match anything; buff awards carry their id in "id"
LotteryAwardMatches(award, req) ==
    LET item_type == Get(req, "type", "")
        count == Get(req, "count", "")
        item_id == Get(req, "itemId", "")
        award_type == Get(award, "type", S("")).v
        award_count == StrOf(Get(award, "count", S("")))
        award_item_id == IF Lower(award_type) = "buff"
                         THEN StrOf(Get(award, "id", S("")))
                         ELSE StrOf(Get(award, "itemId", S("")))
    IN  /\ item_type = "" \/ Lower(award_type) = Lower(item_type)
        /\ count = "" \/ award_count = count
        /\ item_id = "" \/ award_item_id = item_id

LotteryFoundPacket(award_packets, req) ==
    \E p \in 1..Len(award_packets) :
        /\ StrOf(Get(award_packets[p], "probability", S(""))) = Get(req, "probability", "")
        /\ \E a \in 1..Len(Get(award_packets[p], "awards", <<>>)) :
              LotteryAwardMatches(Get(award_packets[p], "awards", <<>>)[a], req)

validate_actions_content(sf) ==
    LET idx == sf.requirements_by_action_id
        one(action_id, requirements) ==
            IF ~DictHas(sf.actions_by_id, action_id)
            THEN <<Err("cannot check content of action " \o action_id \o ": not in config",
                       S(action_id))>>
            ELSE
            LET award_packets == Get(DictGet(sf.actions_by_id, action_id), "awardPackets", <<>>)
            IN  IF award_packets = <<>>
                THEN <<Info("content of action " \o action_id),
                       Err("action " \o action_id \o " has no awardPackets", S(action_id))>>
                ELSE Concat(<<
                       <<Info("content of action " \o action_id), Info("award packets found")>>,
                       [p \in 1..Len(award_packets) |-> Info("packet")],
                       [r \in 1..Len(requirements) |->
                           LET found == LotteryFoundPacket(award_packets, requirements[r])
                           IN  Check(S(action_id),
                                     "Nagrada " \o Get(requirements[r], "type", "") \o " v ekshene "
                                        \o action_id,
                                     found, S("found"),
                                     IF found THEN S("found") ELSE S("not found"),
                                     S("type, count, itemId, probability"), "")] >>)
    IN  Concat([i \in 1..Len(idx) |-> one(idx[i][1], idx[i][2])])

validate_need_action_lottery(sf) ==
    IF ~Truthy(sf.season_pass_actions)
    THEN <<Warn("cannot check needAction: no season pass ids", None)>>
    ELSE
    LET action_ids == DictKeys(sf.requirements_by_action_id)
        one(action_id) ==
            IF ~DictHas(sf.actions_by_id, action_id)
            THEN <<Err("cannot check needAction of action " \o action_id \o ": not in config",
                       S(action_id))>>
            ELSE
            LET need_action == Get(DictGet(sf.actions_by_id, action_id), "needAction", S(""))
            IN  <<Check(S(action_id), "needAction parameter present, action " \o action_id,
                        Truthy(need_action), S("Present"),
                        IF Truthy(need_action) THEN S("Present") ELSE S("Absent"), None, "")>>
                \o IF Truthy(need_action)
                   THEN <<Check(S(action_id),
                                "needAction matches season pass ids, action " \o action_id,
                                need_action = sf.season_pass_actions,
                                sf.season_pass_actions, need_action, None, "")>>
                   ELSE <<>>
    IN  Concat([i \in 1..Len(action_ids) |-> one(action_ids[i])])

\* print_summary of the lottery: nothing after the header with --json;
\* otherwise the percentages passed/total and failed/total are formatted
print_summary_lottery(sf, Lg) ==
    IF sf.json_output THEN <<Header("results")>>
    ELSE IF Lg.stats.total_checks = 0
         THEN <<Header("results"), Raise("ZeroDivisionError")>>
         ELSE <<Header("results")>>

_get_error_details(error) ==
    IF Contains(error.check, "Nagrada") THEN S("award must match the requirements")
    ELSE IF Contains(error.check, "Ekshen") THEN S("action must be present in config")
    ELSE Get(error, "details", S(""))

LotteryCsvRows(m) ==
    Concat([i \in 1..Len(m) |->
        [j \in 1..Len(m[i][2]) |->
            [check |-> m[i][2][j].check, id |-> m[i][1],
             expected |-> Get(m[i][2][j], "expected", S("")),
             actual |-> Get(m[i][2][j], "actual", S("")),
             details |-> _get_error_details(m[i][2][j])]]])

-----------------------------------------------------------------------------
(* main-reward-lines: SeasonPassValidator.  The requirements column         *)
(* 'needResources (17886)' is written needResources_17886.                  *)

MainRow(free, paid, need, t1, id1, qty1, t2, id2, qty2) ==
    [action_free |-> free, action_paid |-> paid, needResources_17886 |-> need,
     award_1_type |-> t1, award_1_id |-> id1, award_1_qty |-> qty1,
     award_2_type |-> t2, award_2_id |-> id2, award_2_qty |-> qty2]

MainRows == <<
    MainRow("201", "202", "5", "item", "17909", "3", "cash", "cash", "10"),
    MainRow("203", "", "0", "season_currency", "sc", "2", "", "", ""),
    MainRow("abc", "204", "", "", "", "", "", "", ""),
    MainRow("201", "301", "", "buff", "9", "x", "item", "5", "1") >>

MainAction201 ==
    [id_at |-> I(201),
     needResources |-> <<[type |-> S("item"), itemId |-> I(17886), count |-> I(5)]>>,
     awards |-> <<[type |-> S("item"), itemId |-> I(17909), count |-> I(3)]>>]

MainAction202 ==
    [id_at |-> I(202), awards |-> <<[type |-> S("cash"), count |-> I(10)]>>,
     needAction |-> S("7,8")]

MainAction201b ==
    [id_at |-> S("201"), needResources |-> <<>>,
     awards |-> <<[type |-> S("buff"), id |-> I(9), count |-> I(1)],
                  [type |-> S("item"), itemId |-> I(17909), count |-> I(4)]>>]

MainAction202b == [id_at |-> I(202), awards |-> <<>>, needAction |-> S("9")]

MainAction204 == [id_at |-> I(204), needAction |-> I(7)]

\* a free action that asks for the item 17886
MainAction203 ==
    [id_at |-> I(203),
     needResources |-> <<[type |-> S("item"), itemId |-> I(17886), count |-> I(1)]>>,
     awards |-> <<[type |-> S("season_currency"), count |-> I(2)]>>]

\* a paid action without needAction
MainAction202c == [id_at |-> I(202), awards |-> <<[type |-> S("cash"), count |-> I(10)]>>]

MainActionsFiles == <<
    Missing,
    File(<<MainAction201, MainAction202>>),
    File(<<MainAction201b, MainAction202b, MainAction204>>),
    File(<<MainAction201, MainAction202c, MainAction203>>) >>

MainPromoFiles == <<
    Missing,
    File([awards |-> <<I(201), I(202)>>, parameters |-> [seasonPassActions |-> <<I(7), I(8)>>]]),
    File([awards |-> <<I(201), I(999)>>, parameters |-> [battlepassAction |-> I(9)]]),
    File([awards |-> <<S("x"), I(201), I(202)>>]) >>

\* {int(req[col]): req for req in requirements if col in req and req[col]}
RECURSIVE RowsByIntColumn(_, _, _, _)
RowsByIntColumn(requirements, col, i, acc) ==
    IF i > Len(requirements) \/ ~acc.ok THEN acc
    ELSE LET req == requirements[i]
         IN  IF col \in DOMAIN req /\ req[col] # ""
             THEN IF IntOfStr(req[col]).ok
                  THEN RowsByIntColumn(requirements, col, i + 1,
                         [ok |-> TRUE, d |-> DictSet(acc.d, I(IntOfStr(req[col]).v), req)])
                  ELSE [ok |-> FALSE, d |-> acc.d]
             ELSE RowsByIntColumn(requirements, col, i + 1, acc)

\* for action in actions: if action.get('@id'): actions_by_id[int(id)] = action
RECURSIVE IntActionsById(_, _, _)
IntActionsById(actions, i, acc) ==
    IF i > Len(actions) \/ ~acc.ok THEN acc
    ELSE LET action_id == Get(actions[i], "id_at", None)
         IN  IF Truthy(action_id)
             THEN IF IntOf(action_id).ok
                  THEN IntActionsById(actions, i + 1,
                         [ok |-> TRUE, d |-> DictSet(acc.d, I(IntOf(action_id).v), actions[i])])
                  ELSE [ok |-> FALSE, d |-> acc.d]
             ELSE IntActionsById(actions, i + 1, acc)

\* promo_order: the iteration order of set(promo['awards'])
Main_init(inp, promo_order) ==
    LET promo == Load(inp.promo)
        requirements == Load(inp.requirements)
        actions == Load(inp.actions)
        season == _get_season_pass_actions(promo)
        free == RowsByIntColumn(requirements, "action_free", 1, [ok |-> TRUE, d |-> <<>>])
        paid == RowsByIntColumn(requirements, "action_paid", 1, [ok |-> TRUE, d |-> <<>>])
        byid == IntActionsById(actions, 1, [ok |-> TRUE, d |-> <<>>])
    IN  [self  |-> [promo |-> promo, requirements |-> requirements, actions |-> actions,
                    season_pass_actions |-> season.value,
                    free_actions |-> free.d, paid_actions |-> paid.d,
                    actions_by_id |-> byid.d, promo_action_ids |-> promo_order],
         calls |-> Concat(<< <<Header("season pass validation"), Info("files"), Info("promo"),
                               Info("requirements"), Info("actions")>>,
                             LoadCalls(inp.promo, "promo.json"),
                             LoadCalls(inp.requirements, "requirements.csv"),
                             LoadCalls(inp.actions, "actions.json"),
                             season.calls,
                             IF ~IsNone(season.value) THEN <<Info("season pass ids")>>
                             ELSE <<>>,
                             IF ~free.ok \/ ~paid.ok THEN <<Raise("ValueError")>>
                             ELSE IF ~byid.ok THEN <<Raise("ValueError")>>
                             ELSE <<Info("free count"), Info("paid count"),
                                    Info("promo count"), Info("actions count")>> >>)]

\* every promo award id is checked against the requirements table, none is
\* skipped
validate_action_ids_in_promo_NoSkip(sf) ==
    LET free == DictKeys(sf.free_actions)
        paid == DictKeys(sf.paid_actions)
        in_promo(id) == \E k \in 1..Len(sf.promo_action_ids) : sf.promo_action_ids[k] = id
        in_req(id) == DictHas(sf.free_actions, id) \/ DictHas(sf.paid_actions, id)
    IN  Concat(<<
          <<Info("action_free and action_paid in promo")>>,
          [i \in 1..Len(free) |->
              Check(free[i], "action_free in promo", in_promo(free[i]),
                    S("in promo awards"), PresentOrAbsent(in_promo(free[i])),
                    S("action_free must be in promo awards"), "ACTION_FREE_IN_PROMO")],
          [i \in 1..Len(paid) |->
              Check(paid[i], "action_paid in promo", in_promo(paid[i]),
                    S("in promo awards"), PresentOrAbsent(in_promo(paid[i])),
                    S("action_paid must be in promo awards"), "ACTION_PAID_IN_PROMO")],
          [k \in 1..Len(sf.promo_action_ids) |->
              Check(sf.promo_action_ids[k], "promo award in requirements",
                    in_req(sf.promo_action_ids[k]),
                    S("in requirements"), PresentOrAbsent(in_req(sf.promo_action_ids[k])),
                    S("promo award must be in requirements"),
                    "PROMO_AWARD_IN_REQUIREMENTS")] >>)

validate_action_ids_in_promo(sf) ==
    LET free == DictKeys(sf.free_actions)
        paid == DictKeys(sf.paid_actions)
        in_promo(id) == \E k \in 1..Len(sf.promo_action_ids) : sf.promo_action_ids[k] = id
        in_req(id) == DictHas(sf.free_actions, id) \/ DictHas(sf.paid_actions, id)
    IN  Concat(<<
          <<Info("action_free and action_paid in promo")>>,
          [i \in 1..Len(free) |->
              Check(free[i], "action_free in promo", in_promo(free[i]),
                    S("in promo awards"), PresentOrAbsent(in_promo(free[i])),
                    S("action_free must be in promo awards"), "ACTION_FREE_IN_PROMO")],
          [i \in 1..Len(paid) |->
              Check(paid[i], "action_paid in promo", in_promo(paid[i]),
                    S("in promo awards"), PresentOrAbsent(in_promo(paid[i])),
                    S("action_paid must be in promo awards"), "ACTION_PAID_IN_PROMO")],
          [k \in 1..Len(sf.promo_action_ids) |->
              IF ~in_req(sf.promo_action_ids[k])
              THEN Info("promo award not in requirements table")
              ELSE Check(sf.promo_action_ids[k], "promo award in requirements",
                         in_req(sf.promo_action_ids[k]),
                         S("in requirements"), PresentOrAbsent(in_req(sf.promo_action_ids[k])),
                         S("promo award must be in requirements"),
                         "PROMO_AWARD_IN_REQUIREMENTS")] >>)

validate_action_ids_in_actions(sf) ==
    LET free == DictKeys(sf.free_actions)
        paid == DictKeys(sf.paid_actions)
    IN  Concat(<<
          <<Info("action_free and action_paid in actions.json")>>,
          [i \in 1..Len(free) |->
              Check(free[i], "action_free in actions file", DictHas(sf.actions_by_id, free[i]),
                    S("in actions file"), PresentOrAbsent(DictHas(sf.actions_by_id, free[i])),
                    S("action_free must be in actions file"), "ACTION_FREE_IN_ACTIONS")],
          [i \in 1..Len(paid) |->
              Check(paid[i], "action_paid in actions file", DictHas(sf.actions_by_id, paid[i]),
                    S("in actions file"), PresentOrAbsent(DictHas(sf.actions_by_id, paid[i])),
                    S("action_paid must be in actions file"), "ACTION_PAID_IN_ACTIONS")] >>)

IsNeedResource17886(resource) ==
    Get(resource, "type", None) = S("item") /\ Get(resource, "itemId", None) = I(17886)

\* the needResources block of validate_action_content (free actions)
MainNeedResourcesCalls(action_id, requirement, action) ==
    LET need_resources_value == Get(requirement, "needResources_17886", "")
        action_need_resources == Get(action, "needResources", <<>>)
        at == FirstIdx(action_need_resources, IsNeedResource17886)
    IN  IF need_resources_value # ""
        THEN IF ~IntOfStr(need_resources_value).ok THEN <<Raise("ValueError")>>
             ELSE IF IntOfStr(need_resources_value).v = 0
             THEN <<Info("needResources check not required: value 0")>>
             ELSE <<Check(action_id, "needResources 17886 present", at # 0,
                          S("present"), PresentOrAbsent(at # 0),
                          S("needResources 17886 must be in action"),
                          "NEED_RESOURCES_PRESENCE")>>
                  \o IF at # 0
                     THEN <<Check(action_id, "needResources count",
                                  Get(action_need_resources[at], "count", None)
                                     = I(IntOfStr(need_resources_value).v),
                                  I(IntOfStr(need_resources_value).v),
                                  Get(action_need_resources[at], "count", None),
                                  S("needResources count must match"),
                                  "NEED_RESOURCES_COUNT")>>
                     ELSE <<>>
        ELSE \* the value is empty here, so the comparison with '0' is false
             IF need_resources_value = "0"
             THEN <<Check(action_id, "needResources 17886 absent at value 0", at = 0,
                          S("absent"), PresentOrAbsent(at # 0),
                          S("needResources 17886 must not be in action"),
                          "NEED_RESOURCES_ABSENCE")>>
             ELSE <<>>

\* the count compared although the award was not found
MainAwardCountCalls_WithoutPresence(action_id, award_type, action_awards, at, award_qty) ==
    LET actual == IF at # 0 THEN Get(action_awards[at], "count", None) ELSE None
    IN  <<Check(action_id, "award " \o award_type \o " count", actual = award_qty,
                award_qty, actual, S("award count must match"), "AWARD_COUNT")>>

\* if award_found: the count of the found award against the requirements
MainAwardCountCalls(action_id, award_type, action_awards, at, award_qty) ==
    IF at # 0
    THEN <<Check(action_id, "award " \o award_type \o " count",
                 Get(action_awards[at], "count", None) = award_qty,
                 award_qty, Get(action_awards[at], "count", None),
                 S("award count must match"), "AWARD_COUNT")>>
    ELSE <<>>

\* the awards block of validate_action_content (award_1_* / award_2_*)
MainAwardCalls(action_id, action, award_type, award_id_str, award_qty_str) ==
    IF award_type = "" \/ award_id_str = "" \/ award_qty_str = "" THEN <<>>
    ELSE IF ~IntOfStr(award_qty_str).ok THEN <<Raise("ValueError")>>
    ELSE
    LET award_qty == I(IntOfStr(award_qty_str).v)
        award_id == IF IsDigitStr(award_id_str) THEN I(DigitsValue(award_id_str))
                    ELSE S(award_id_str)
        action_awards == Get(action, "awards", <<>>)
        matches(award) ==
            \/ award_type = "cash" /\ Get(award, "type", None) = S("cash")
                                   /\ award_id = S("cash")
            \/ award_type = "season_currency" /\ Get(award, "type", None) = S("season_currency")
            \/ award_type = "item" /\ Get(award, "type", None) = S("item")
                                   /\ Get(award, "itemId", None) = award_id
            \/ award_type = "buff" /\ Get(award, "type", None) = S("buff")
                                   /\ Get(award, "id", None) = award_id
        at == FirstIdx(action_awards, matches)
    IN  <<Check(action_id, "award " \o award_type \o " present", at # 0,
                S("present"), PresentOrAbsent(at # 0),
                S("award must be in action"), "AWARD_PRESENCE")>>
        \o MainAwardCountCalls(action_id, award_type, action_awards, at, award_qty)

\* the needAction block of validate_action_content (paid actions)
MainPaidNeedActionCalls(sf, action_id, action) ==
    LET need_action_values == Get(action, "needAction", S(""))
        has_need_action == Truthy(need_action_values)
        parameters == Get(sf.promo, "parameters", <<>>)
        season_pass_actions == Get(parameters, "seasonPassActions", <<>>)
        battle_pass_action == Get(parameters, "battlepassAction", None)
        parts == SplitComma(need_action_values.v)
        need_action_ids == {I(IntOfStr(parts[k]).v) : k \in 1..Len(parts)}
        found == \/ \E k \in 1..Len(season_pass_actions) :
                       season_pass_actions[k] \in need_action_ids
                 \/ battle_pass_action \in need_action_ids
    IN  <<Check(action_id, "needAction field present (paid)", has_need_action,
                S("present"), PresentOrAbsent(has_need_action),
                S("needAction must be present for a paid award"), "NEED_ACTION_PRESENCE")>>
        \o IF ~has_need_action THEN <<>>
           ELSE IF need_action_values.t # "str" THEN <<Raise("AttributeError")>>
           ELSE IF \E k \in 1..Len(parts) : ~IntOfStr(parts[k]).ok THEN <<Raise("ValueError")>>
           ELSE <<Check(action_id, "season pass id in needAction", found,
                        S("present"), PresentOrAbsent(found),
                        S("season pass id must be in needAction"),
                        "NEED_ACTION_SEASON_PASS")>>

validate_action_content(sf) ==
    LET free(action_id, requirement) ==
            IF ~DictHas(sf.actions_by_id, action_id)
            THEN <<Warn("action_free not in actions file, content check skipped", action_id)>>
            ELSE MainNeedResourcesCalls(action_id, requirement,
                                        DictGet(sf.actions_by_id, action_id))
                 \o MainAwardCalls(action_id, DictGet(sf.actions_by_id, action_id),
                                   Get(requirement, "award_1_type", ""),
                                   Get(requirement, "award_1_id", ""),
                                   Get(requirement, "award_1_qty", ""))
        paid(action_id, requirement) ==
            IF ~DictHas(sf.actions_by_id, action_id)
            THEN <<Warn("action_paid not in actions file, content check skipped", action_id)>>
            ELSE MainAwardCalls(action_id, DictGet(sf.actions_by_id, action_id),
                                Get(requirement, "award_2_type", ""),
                                Get(requirement, "award_2_id", ""),
                                Get(requirement, "award_2_qty", ""))
                 \o MainPaidNeedActionCalls(sf, action_id, DictGet(sf.actions_by_id, action_id))
    IN  Concat(<<
          <<Info("action content")>>,
          Concat([i \in 1..Len(sf.free_actions) |->
                     free(sf.free_actions[i][1], sf.free_actions[i][2])]),
          Concat([i \in 1..Len(sf.paid_actions) |->
                     paid(sf.paid_actions[i][1], sf.paid_actions[i][2])]) >>)

validate_need_action(sf) ==
    IF ~Truthy(sf.season_pass_actions)
    THEN <<Warn("cannot check needAction: no season pass ids", None)>>
    ELSE
    LET paid == DictKeys(sf.paid_actions)
        one(action_id) ==
            IF ~DictHas(sf.actions_by_id, action_id)
            THEN <<Err("cannot check needAction: action not in config", action_id)>>
            ELSE
            LET need_action == Get(DictGet(sf.actions_by_id, action_id), "needAction", S(""))
            IN  <<Check(action_id, "needAction parameter present", Truthy(need_action),
                        S("present"), PresentOrAbsent(Truthy(need_action)),
                        S("needAction must be present for a paid award"),
                        "NEED_ACTION_PRESENCE")>>
                \o IF Truthy(need_action)
                   THEN <<Check(action_id, "needAction matches season pass ids",
                                need_action = sf.season_pass_actions,
                                sf.season_pass_actions, need_action,
                                S("needAction must be the exact season pass id list"),
                                "NEED_ACTION_VALUE")>>
                   ELSE <<>>
    IN  Concat([i \in 1..Len(paid) |-> one(paid[i])])

\* the rows of the CSV report of the validators that write one row per entry
\* of the per-subject map (main-reward-lines, quests-weekly, rfm-offers,
\* shop-offers)
MapCsvRows(m) ==
    Concat([i \in 1..Len(m) |->
        [j \in 1..Len(m[i][2]) |->
            [check |-> m[i][2][j].check, id |-> m[i][1],
             expected |-> m[i][2][j].expected, actual |-> m[i][2][j].actual,
             details |-> m[i][2][j].details]]])

-----------------------------------------------------------------------------
(* quests-weekly: QuestsValidator.  The requirements columns 'Неделя',      *)
(* 'count(17909)' and 'count(17908)' are written week, count_17909 and      *)
(* count_17908; the JSON key '#children' is written children.               *)

QuestsRow(week, complexity, type, alias, minLevel, minValue, c17909, c17908) ==
    [week |-> week, complexity |-> complexity, type |-> type, alias |-> alias,
     minLevel |-> minLevel, maxLevel |-> "", minValue |-> minValue,
     count_17909 |-> c17909, count_17908 |-> c17908]

QuestsRows == <<
    QuestsRow("1", "401", "Collect", "q1", "5", "10", "3", "2"),
    QuestsRow("2", "402", "build", "q2", "x", "", "1", ""),
    QuestsRow("1", "4x", "", "", "", "", "", ""),
    QuestsRow("2", "401", "collect", "q1b", "6", "1x", "", "5") >>

QuestsAction401 ==
    [id_at |-> I(401),
     children |-> <<[type |-> S("collect"), alias |-> S("q1"), minLevel |-> I(5),
                     minValue |-> I(10)]>>]

QuestsAction402 == [id_at |-> I(402), children |-> <<>>]

QuestsAction401b ==
    [id_at |-> S("401"),
     children |-> <<[type |-> S("Build"), alias |-> S("other"), minLevel |-> I(6)]>>]

QuestsActionsFiles == <<
    Missing,
    File(<< <<QuestsAction401, QuestsAction402>> >>),
    File(<< <<QuestsAction401b>>, <<[children |-> <<>>]>> >>) >>

QuestsPromoFiles == <<
    Missing,
    File([quests |-> <<[id |-> I(1), exercises |-> [list |-> <<I(401), I(402)>>],
                        awards |-> [custom |-> <<[itemId |-> I(17909), count |-> I(3)],
                                                 [itemId |-> I(17908), count |-> I(5)]>>]]>>]),
    File([quests |-> <<[id |-> I(2), exercises |-> [list |-> <<I(401), I(499)>>],
                        awards |-> [custom |-> <<>>]]>>]) >>

\* the first loop of __init__: complexity ids by week, in table order
RECURSIVE QuestsByWeek(_, _, _)
QuestsByWeek(requirements, i, acc) ==
    IF i > Len(requirements) \/ ~acc.ok THEN acc
    ELSE LET req == requirements[i]
         IN  IF "complexity" \in DOMAIN req /\ req["complexity"] # "" /\ "week" \in DOMAIN req
             THEN IF IntOfStr(req["complexity"]).ok
                  THEN QuestsByWeek(requirements, i + 1,
                         [ok |-> TRUE,
                          d |-> DictAppend(acc.d, req["week"], I(IntOfStr(req["complexity"]).v))])
                  ELSE [ok |-> FALSE, d |-> acc.d]
             ELSE QuestsByWeek(requirements, i + 1, acc)

\* for action_group in actions: for action in action_group: ...
QuestsFlatten(actions) == Concat(actions)

RECURSIVE QuestsPromoQuests(_, _, _)
QuestsPromoQuests(quests, i, idx) ==
    IF i > Len(quests) THEN idx
    ELSE QuestsPromoQuests(quests, i + 1,
            IF ~IsNone(Get(quests[i], "id", None))
            THEN DictSet(idx, Get(quests[i], "id", None), quests[i])
            ELSE idx)

QuestExercises(quest) == Get(Get(quest, "exercises", <<>>), "list", <<>>)

RECURSIVE QuestsSetAll(_, _, _, _)
QuestsSetAll(idx, keys, k, value) ==
    IF k > Len(keys) THEN idx ELSE QuestsSetAll(DictSet(idx, keys[k], value), keys, k + 1, value)

RECURSIVE QuestsComplexityToQuest(_, _, _)
QuestsComplexityToQuest(quests, i, idx) ==
    IF i > Len(quests) THEN idx
    ELSE QuestsComplexityToQuest(quests, i + 1,
            IF ~IsNone(Get(quests[i], "id", None))
            THEN QuestsSetAll(idx, QuestExercises(quests[i]), 1, Get(quests[i], "id", None))
            ELSE idx)

Quests_init(inp) ==
    LET promo == Load(inp.promo)
        requirements == Load(inp.requirements)
        actions == Load(inp.actions)
        byweek == QuestsByWeek(requirements, 1, [ok |-> TRUE, d |-> <<>>])
        details == RowsByIntColumn(requirements, "complexity", 1, [ok |-> TRUE, d |-> <<>>])
        byid == IntActionsById(QuestsFlatten(actions), 1, [ok |-> TRUE, d |-> <<>>])
        quests == Get(promo, "quests", <<>>)
    IN  [self  |-> [promo |-> promo, requirements |-> requirements, actions |-> actions,
                    complexity_ids |-> byweek.d,
                    all_complexity_ids |-> Concat([w \in 1..Len(byweek.d) |-> byweek.d[w][2]]),
                    complexity_details |-> details.d,
                    actions_by_id |-> byid.d,
                    promo_quests |-> QuestsPromoQuests(quests, 1, <<>>),
                    complexity_to_quest |-> QuestsComplexityToQuest(quests, 1, <<>>)],
         calls |-> Concat(<< <<Header("weekly quests validation"), Info("files"), Info("promo"),
                               Info("requirements"), Info("actions")>>,
                             LoadCalls(inp.promo, "promo.json"),
                             LoadCalls(inp.requirements, "requirements.csv"),
                             LoadCalls(inp.actions, "actions.json"),
                             IF ~byweek.ok \/ ~details.ok \/ ~byid.ok THEN <<Raise("ValueError")>>
                             ELSE <<Info("complexity count"), Info("quests count"),
                                    Info("actions count")>> >>)]

validate_complexity_in_actions(sf) ==
    <<Info("complexity in actions.json")>>
    \o [i \in 1..Len(sf.all_complexity_ids) |->
          Check(sf.all_complexity_ids[i], "complexity in actions file",
                DictHas(sf.actions_by_id, sf.all_complexity_ids[i]),
                S("in actions file"),
                PresentOrAbsent(DictHas(sf.actions_by_id, sf.all_complexity_ids[i])),
                S("complexity must be in actions file"), "COMPLEXITY_IN_ACTIONS")]

validate_complexity_in_promo(sf) ==
    LET quests == Get(sf.promo, "quests", <<>>)
        promo_complexity_ids == Concat([q \in 1..Len(quests) |-> QuestExercises(quests[q])])
        in_promo(id) == \E k \in 1..Len(promo_complexity_ids) : promo_complexity_ids[k] = id
        in_req(id) == \E k \in 1..Len(sf.all_complexity_ids) : sf.all_complexity_ids[k] = id
    IN  Concat(<<
          <<Info("complexity in promo exercises")>>,
          [i \in 1..Len(sf.all_complexity_ids) |->
              Check(sf.all_complexity_ids[i], "complexity in promo exercises",
                    in_promo(sf.all_complexity_ids[i]), S("in promo exercises"),
                    PresentOrAbsent(in_promo(sf.all_complexity_ids[i])),
                    S("complexity must be in promo exercises"), "COMPLEXITY_IN_PROMO")],
          Concat([k \in 1..Len(promo_complexity_ids) |->
              IF ~in_req(promo_complexity_ids[k])
              THEN <<Warn("complexity in promo but not in requirements",
                          promo_complexity_ids[k])>>
              ELSE <<>>]) >>)

\* a numeric column of validate_complexity_config: compared only when the
\* requirement is all digits and the configuration has the field
QuestsLevelCalls(complexity_id, req_details, config, col, name, tag) ==
    LET req_value == Get(req_details, col, "")
        config_value == Get(config, col, None)
    IN  IF req_value # "" /\ IsDigitStr(req_value) /\ ~IsNone(config_value)
        THEN <<Check(complexity_id, name, I(DigitsValue(req_value)) = config_value,
                     I(DigitsValue(req_value)), config_value,
                     S("must equal the requirements value"), tag)>>
        ELSE <<>>

validate_complexity_config(sf) ==
    LET one(complexity_id) ==
            IF ~DictHas(sf.actions_by_id, complexity_id)
            THEN <<Warn("complexity not in actions file, config check skipped", complexity_id)>>
            ELSE
            LET req_details == IF DictHas(sf.complexity_details, complexity_id)
                               THEN DictGet(sf.complexity_details, complexity_id) ELSE <<>>
                children == Get(DictGet(sf.actions_by_id, complexity_id), "children", <<>>)
                config == children[1]
                req_type == Get(req_details, "type", "")
                config_type == Get(config, "type", S(""))
                req_alias == Get(req_details, "alias", "")
                config_alias == Get(config, "alias", S(""))
            IN  IF children = <<>>
                THEN <<Warn("no #children block in actions file", complexity_id)>>
                ELSE Concat(<<
                       <<Check(complexity_id, "exercise type matches",
                               Lower(req_type) = Lower(config_type.v),
                               S(req_type), config_type,
                               S("type must equal the requirements value"), "TYPE_MATCH"),
                         Check(complexity_id, "exercise alias matches",
                               S(req_alias) = config_alias, S(req_alias), config_alias,
                               S("alias must equal the requirements value"), "ALIAS_MATCH")>>,
                       QuestsLevelCalls(complexity_id, req_details, config, "minLevel",
                                        "min level matches", "MIN_LEVEL_MATCH"),
                       QuestsLevelCalls(complexity_id, req_details, config, "maxLevel",
                                        "max level matches", "MAX_LEVEL_MATCH"),
                       QuestsLevelCalls(complexity_id, req_details, config, "minValue",
                                        "min value matches", "MIN_VALUE_MATCH") >>)
    IN  <<Info("requirements.csv against actions.json")>>
        \o Concat([i \in 1..Len(sf.all_complexity_ids) |-> one(sf.all_complexity_ids[i])])

\* the presence check of one custom award of the quest and, when the award
\* is found, the check of its count
QuestsAwardCalls(complexity_id, req_details, awards, col, item_id, item, tag) ==
    LET req_count == Get(req_details, col, "")
        IsItem(award) == Get(award, "itemId", None) = I(item_id)
        at == FirstIdx(awards, IsItem)
    IN  IF req_count # "" /\ IsDigitStr(req_count)
        THEN <<Check(complexity_id, "award itemId " \o item \o " present in quest", at # 0,
                     S("present"), PresentOrAbsent(at # 0),
                     S("award must be present in quest"), "AWARD_" \o tag \o "_PRESENCE")>>
             \o IF at # 0
                THEN <<Check(complexity_id, "award itemId " \o item \o " count matches",
                             I(DigitsValue(req_count)) = Get(awards[at], "count", None),
                             I(DigitsValue(req_count)), Get(awards[at], "count", None),
                             S("award count must equal the requirements value"),
                             "AWARD_" \o tag \o "_COUNT")>>
                ELSE <<>>
        ELSE <<>>

validate_quest_awards(sf) ==
    LET one(complexity_id) ==
            IF ~DictHas(sf.complexity_to_quest, complexity_id)
            THEN <<Warn("complexity not linked to a promo quest, award check skipped",
                        complexity_id)>>
            ELSE IF ~DictHas(sf.promo_quests, DictGet(sf.complexity_to_quest, complexity_id))
            THEN <<Warn("quest not found for complexity", complexity_id)>>
            ELSE
            LET quest == DictGet(sf.promo_quests, DictGet(sf.complexity_to_quest, complexity_id))
                awards == Get(Get(quest, "awards", <<>>), "custom", <<>>)
                req_details == IF DictHas(sf.complexity_details, complexity_id)
                               THEN DictGet(sf.complexity_details, complexity_id) ELSE <<>>
            IN  QuestsAwardCalls(complexity_id, req_details, awards, "count_17909", 17909,
                                 "17909", "17909")
                \o QuestsAwardCalls(complexity_id, req_details, awards, "count_17908", 17908,
                                    "17908", "17908")
    IN  <<Info("quest awards: requirements.csv against promo.json")>>
        \o Concat([i \in 1..Len(sf.all_complexity_ids) |-> one(sf.all_complexity_ids[i])])

-----------------------------------------------------------------------------
(* rfm-offers: RfmOffersValidator.  A requirements row is a function from   *)
(* column names to cells, so that the 'techitem(ID)' column keeps its name.  *)
(* In a filter of parameters.controlSettings and in a condition of           *)
(* parameters.settingsByConditions the JSON keys are kept.                   *)

RfmRow(offer, action, award, price, start, end, discount, old_price, segment, tcol, tcount) ==
    [offer |-> offer, action |-> action, award |-> award, price |-> price,
     start |-> start, end |-> end, discount |-> discount, old_price |-> old_price,
     segment |-> segment] @@ (tcol :> tcount)

RfmRows == <<
    RfmRow("rfm1", "501", "100", "9.99", "2024-01-05 7:00:00", "2024-01-06 07:00:00",
           "20", "12", "b,a", "techitem(17908)", "3"),
    RfmRow("rfm2", "502", "50", "5", "", "", "10", "6", "", "techitem(17908)", "2%"),
    RfmRow("rfm1", "0", "100", "9.99", "", "", "", "", "c", "techitem(17908)", "x"),
    RfmRow("rfm2", "501", "1O0", "9,99", "", "", "", "", "", "techitem(17908)", "") >>

\* a requirements.csv whose techitem column carries no digits
RfmNoDigitsTable ==
    File(<<RfmRow("rfm1", "501", "100", "9.99", "", "", "20", "12", "a", "techitem(id)", "3")>>)

RfmAction501 ==
    [id_at |-> I(501),
     awards |-> <<[type |-> S("item"), itemId |-> I(17909), count |-> I(100)]>>,
     needResources |-> <<[type |-> S("cash"), count |-> Fl(99900)]>>]

RfmAction502 ==
    [id_at |-> I(502), awards |-> <<>>,
     needResources |-> <<[type |-> S("cash"), count |-> I(6)]>>]

RfmAction0 == [id_at |-> I(0), awards |-> <<>>, needResources |-> <<>>]

RfmAction501b ==
    [id_at |-> S("501"),
     awards |-> <<[type |-> S("item"), itemId |-> I(17909), count |-> I(90)]>>,
     needResources |-> <<>>]

RfmActionsFiles == <<
    Missing,
    File(<<RfmAction501, RfmAction502>>),
    File(<<RfmAction0, RfmAction501b, [awards |-> <<>>]>>),
    File(<<RfmAction501, [id_at |-> S("abc")]>>),
    File(<<RfmAction501b, RfmAction501>>) >>

RfmConfig1 ==
    [awards |-> <<I(501)>>, from |-> S("2024-01-05 07:00:00"), to |-> S("2024-01-06 7:00:00"),
     parameters |->
        [controlSettings |-> <<[displayObject |-> S("a/discount"), textKeyFit |-> S("-20%")],
                               [displayObject |-> S("a/count"), textKeyFit |-> S("x100")],
                               [displayObject |-> S("a/txtCost"), textKeyFit |-> S("12")]>>,
         settingsByConditions |->
            <<[conditions |-> [isNotInOneOfRFM30Segments |-> S("a, b"),
                               hasItems |-> <<[itemID |-> I(17908), count |-> I(3)]>>]]>>]]

RfmConfig1b ==
    [awards |-> <<I(777)>>, from |-> S("2024-01-05 08:00:00"),
     parameters |->
        [settingsByConditions |->
            <<[conditions |-> [hasItems |-> <<[itemID |-> I(17000), count |-> I(1)]>>]],
              [conditions |-> [isNotInOneOfRFM30Segments |-> S("a")]]>>]]

RfmConfig2 ==
    [awards |-> <<I(502)>>,
     parameters |->
        [settingsByConditions |->
            <<[conditions |-> [hasItems |-> <<[itemID |-> I(17908)]>>]]>>]]

\* the --rfm-files pairs: offer name and file
RfmFileSets == <<
    <<>>,
    << <<"rfm1", File(RfmConfig1)>>, <<"rfm2", File(RfmConfig2)>> >>,
    << <<"rfm1", File(RfmConfig1b)>>, <<"rfm2", Missing>> >> >>

RECURSIVE RfmByOffer(_, _, _)
RfmByOffer(requirements, i, idx) ==
    IF i > Len(requirements) THEN idx
    ELSE RfmByOffer(requirements, i + 1,
            IF "offer" \in DOMAIN requirements[i] /\ requirements[i]["offer"] # ""
            THEN DictSet(idx, requirements[i]["offer"], requirements[i])
            ELSE idx)

RECURSIVE RfmConfigs(_, _, _)
RfmConfigs(rfm_files, i, idx) ==
    IF i > Len(rfm_files) THEN idx
    ELSE RfmConfigs(rfm_files, i + 1, DictSet(idx, rfm_files[i][1], Load(rfm_files[i][2])))

Rfm_init(inp) ==
    LET requirements == Load(inp.requirements)
        actions == Load(inp.actions)
        byid == IntActionsById(actions, 1, [ok |-> TRUE, d |-> <<>>])
    IN  [self  |-> [requirements |-> requirements, actions |-> actions,
                    rfm_configs |-> RfmConfigs(inp.rfm_files, 1, <<>>),
                    requirements_by_offer |-> RfmByOffer(requirements, 1, <<>>),
                    actions_by_id |-> byid.d],
         calls |-> Concat(<< <<Header("rfm offers validation"), Info("files"),
                               Info("requirements"), Info("actions")>>,
                             [i \in 1..Len(inp.rfm_files) |-> Info("rfm file")],
                             LoadCalls(inp.requirements, "requirements.csv"),
                             LoadCalls(inp.actions, "actions.json"),
                             Concat([i \in 1..Len(inp.rfm_files) |->
                                        LoadCalls(inp.rfm_files[i][2], inp.rfm_files[i][1])]),
                             IF ~byid.ok THEN <<Raise("ValueError")>>
                             ELSE <<Info("requirements count"), Info("actions count"),
                                    Info("rfm configs count")>> >>)]

\* int(req.get('action', 0))
RfmActionId(req) == IntOfStr(Get(req, "action", "0"))

validate_action_ids_in_actions_rfm(sf) ==
    LET idx == sf.requirements_by_offer
        one(offer_name, req) ==
            IF ~RfmActionId(req).ok THEN <<Raise("ValueError")>>
            ELSE <<Check(S(offer_name), "action id in actions.json",
                         DictHas(sf.actions_by_id, I(RfmActionId(req).v)),
                         S("present"),
                         PresentOrAbsent(DictHas(sf.actions_by_id, I(RfmActionId(req).v))),
                         None, "ACTION_EXISTS")>>
    IN  <<Header("phase: action ids in actions.json")>>
        \o Concat([i \in 1..Len(idx) |-> one(idx[i][1], idx[i][2])])

IsPointsAward(award) ==
    Get(award, "type", None) = S("item") /\ Get(award, "itemId", None) = I(17909)

IsCashResource(resource) == Get(resource, "type", None) = S("cash")

validate_action_rewards_and_resources(sf) ==
    LET idx == sf.requirements_by_offer
        one(offer_name, req) ==
            IF ~RfmActionId(req).ok THEN <<Raise("ValueError")>>
            ELSE IF ~DictHas(sf.actions_by_id, I(RfmActionId(req).v))
            THEN <<Warn("reward check skipped: action missing", S(offer_name))>>
            ELSE
            LET action == DictGet(sf.actions_by_id, I(RfmActionId(req).v))
                awards == Get(action, "awards", <<>>)
                expected_award == IntOfStr(Get(req, "award", "0"))
                expected_tech_item == IntOfStr(Get(req, "techitem", "0"))
                at == FirstIdx(awards, IsPointsAward)
                actual_award == IF at # 0 THEN Get(awards[at], "count", I(0)) ELSE I(0)
                need_resources == Get(action, "needResources", <<>>)
                expected_price == FloatOfStr(Get(req, "price", "0"))
                pat == FirstIdx(need_resources, IsCashResource)
                actual_price == IF pat # 0 THEN FloatOf(Get(need_resources[pat], "count", I(0)))
                                ELSE [ok |-> TRUE, v |-> 0]
            IN  IF ~expected_award.ok \/ ~expected_tech_item.ok THEN <<Raise("ValueError")>>
                ELSE <<Check(S(offer_name), "points in action award",
                             at # 0 /\ actual_award = I(expected_award.v),
                             I(expected_award.v),
                             IF at # 0 THEN actual_award ELSE S("not found"),
                             None, "AWARD_POINTS_CHECK")>>
                     \o IF ~expected_price.ok \/ ~actual_price.ok THEN <<Raise("ValueError")>>
                        ELSE <<Check(S(offer_name), "price in action needResources",
                                     pat # 0 /\ PriceMatch(actual_price.v, expected_price.v),
                                     Fl(expected_price.v),
                                     IF pat # 0 THEN Fl(actual_price.v) ELSE S("not found"),
                                     None, "PRICE_CHECK")>>
    IN  <<Header("phase: rewards and resources in actions")>>
        \o Concat([i \in 1..Len(idx) |-> one(idx[i][1], idx[i][2])])

\* re.match(r'(\d{4}-\d{2}-\d{2}) (\d):(\d{2}):(\d{2})', s)
MatchesSingleDigitHour(s) ==
    /\ Len(s) >= 18
    /\ \A i \in {1, 2, 3, 4, 6, 7, 9, 10, 12, 14, 15, 17, 18} : IsDigitChar(CharAt(s, i))
    /\ CharAt(s, 5) = "-" /\ CharAt(s, 8) = "-" /\ CharAt(s, 11) = " "
    /\ CharAt(s, 13) = ":" /\ CharAt(s, 16) = ":"

\* the date string returned as it is, the hour never padded
_normalize_date_format_Unpadded(date_str) == date_str

_normalize_date_format(date_str) ==
    IF date_str = "" THEN ""
    ELSE IF MatchesSingleDigitHour(date_str)
    THEN SubSeq(date_str, 1, 10) \o " 0" \o SubSeq(date_str, 12, 12) \o ":"
         \o SubSeq(date_str, 14, 15) \o ":" \o SubSeq(date_str, 17, 18)
    ELSE date_str

\* the first controlSettings entry whose displayObject ends with the suffix
\* as_str: the comparison is str(expected) == str(actual) (old price only)
RfmSettingCalls(offer_name, control_settings, suffix, expected, as_str, name, tag) ==
    LET hit(setting) == EndsWith(Get(setting, "displayObject", S("")).v, suffix)
        at == FirstIdx(control_settings, hit)
        actual == IF at # 0 THEN Get(control_settings[at], "textKeyFit", S("")) ELSE S("")
    IN  <<Check(S(offer_name), name,
                at # 0 /\ (IF as_str THEN expected = StrOf(actual) ELSE S(expected) = actual),
                S(expected), IF at # 0 THEN actual ELSE S("not found"), None, tag)>>

\* [x.strip() for x in s.split(',') if x.strip()]
SegmentList(s) ==
    LET parts == SplitComma(s)
        keep(x) == Strip(x) # ""
        kept == SelectSeq(parts, keep)
    IN  [i \in 1..Len(kept) |-> Strip(kept[i])]

RfmSegmentsCalls(offer_name, req, settings_by_conditions) ==
    LET has(cs) == "isNotInOneOfRFM30Segments" \in DOMAIN Get(cs, "conditions", <<>>)
        at == FirstIdx(settings_by_conditions, has)
        expected_segments == SortStrs(SegmentList(Get(req, "segment", "")))
        actual_segments ==
            IF at # 0
            THEN SortStrs(SegmentList(
                    settings_by_conditions[at].conditions["isNotInOneOfRFM30Segments"].v))
            ELSE <<>>
    IN  <<Check(S(offer_name), "segments in settingsByConditions",
                at # 0 /\ expected_segments = actual_segments,
                S(JoinComma(expected_segments)),
                IF at # 0 THEN S(JoinComma(actual_segments)) ELSE S("not found"),
                None, "SEGMENTS_CHECK")>>

\* the items of every hasItems condition that carry an itemID, in order
RfmHasItems(settings_by_conditions) ==
    LET items(cs) == IF "hasItems" \in DOMAIN Get(cs, "conditions", <<>>)
                     THEN cs.conditions["hasItems"] ELSE <<>>
        withId(item) == "itemID" \in DOMAIN item
    IN  SelectSeq(Concat([i \in 1..Len(settings_by_conditions) |->
                             items(settings_by_conditions[i])]), withId)

\* the techitem block of validate_rfm_files.  The tables of the model have
\* at most one column named techitem(...), so the first one is the only one.
RfmTechitemCalls(offer_name, req, settings_by_conditions) ==
    LET columns == {c \in DOMAIN req : StartsWith(c, "techitem(") /\ EndsWith(c, ")")}
        techitem_column == CHOOSE c \in columns : TRUE
        match == TechitemInt(techitem_column)
        techitem_id == DigitsValue(match.v)
        techitem_count_str == RStripPercent(Get(req, techitem_column, ""))
        has_items == RfmHasItems(settings_by_conditions)
        isTech(item) == item["itemID"] = I(techitem_id)
        at == FirstIdx(has_items, isTech)
        actual_id == IF at # 0 THEN has_items[at]["itemID"]
                     ELSE IF has_items # <<>> THEN has_items[Len(has_items)]["itemID"]
                     ELSE S("not found")
        actual_count == IF at # 0 THEN Get(has_items[at], "count", None) ELSE None
    IN  IF columns = {} \/ ~match.ok \/ techitem_id = 0
        THEN <<Info("no techitem column in requirements")>>
        ELSE IF Get(req, techitem_column, "") = "" THEN <<>>
        ELSE IF ~IntOfStr(techitem_count_str).ok
        THEN <<Warn("bad techitem count format", S(offer_name))>>
        ELSE <<Check(S(offer_name), "techitem id in hasItems", at # 0,
                     I(techitem_id), actual_id, None, "TECHITEM_ID_CHECK")>>
             \o IF at # 0 /\ ~IsNone(actual_count)
                THEN <<Check(S(offer_name), "techitem count in hasItems",
                             actual_count = I(IntOfStr(techitem_count_str).v),
                             I(IntOfStr(techitem_count_str).v), actual_count,
                             None, "TECHITEM_COUNT_CHECK")>>
                ELSE IF at # 0
                THEN <<Warn("techitem found in hasItems without a count", S(offer_name))>>
                ELSE <<>>

validate_rfm_files(sf) ==
    LET idx == sf.requirements_by_offer
        one(offer_name, req) ==
            IF ~DictHas(sf.rfm_configs, offer_name)
            THEN <<Warn("no configuration file for offer", S(offer_name))>>
            ELSE IF ~RfmActionId(req).ok THEN <<Raise("ValueError")>>
            ELSE
            LET rfm_config == DictGet(sf.rfm_configs, offer_name)
                awards_array == Get(rfm_config, "awards", <<>>)
                action_in_awards ==
                    \E k \in 1..Len(awards_array) : awards_array[k] = I(RfmActionId(req).v)
                expected_start == _normalize_date_format(Get(req, "start", ""))
                expected_end == _normalize_date_format(Get(req, "end", ""))
                actual_start == _normalize_date_format(Get(rfm_config, "from", S("")).v)
                actual_end == _normalize_date_format(Get(rfm_config, "to", S("")).v)
                parameters == Get(rfm_config, "parameters", <<>>)
                control_settings == Get(parameters, "controlSettings", <<>>)
                settings_by_conditions == Get(parameters, "settingsByConditions", <<>>)
            IN  Concat(<<
                  <<Check(S(offer_name), "action id in awards array", action_in_awards,
                          I(RfmActionId(req).v), L(awards_array), None, "ACTION_IN_AWARDS"),
                    Check(S(offer_name), "start date", expected_start = actual_start,
                          S(expected_start), S(actual_start), None, "START_DATE_CHECK"),
                    Check(S(offer_name), "end date", expected_end = actual_end,
                          S(expected_end), S(actual_end), None, "END_DATE_CHECK")>>,
                  RfmSettingCalls(offer_name, control_settings, "/discount",
                                  "-" \o Get(req, "discount", "") \o "%", FALSE,
                                  "discount in controlSettings", "DISCOUNT_CHECK"),
                  RfmSettingCalls(offer_name, control_settings, "/count",
                                  "x" \o Get(req, "award", ""), FALSE,
                                  "points in controlSettings", "COUNT_CHECK"),
                  RfmSettingCalls(offer_name, control_settings, "/txtCost",
                                  Get(req, "old_price", ""), TRUE,
                                  "old price in controlSettings", "OLD_PRICE_CHECK"),
                  RfmSegmentsCalls(offer_name, req, settings_by_conditions),
                  RfmTechitemCalls(offer_name, req, settings_by_conditions) >>)
    IN  <<Header("phase: rfm files against requirements")>>
        \o Concat([i \in 1..Len(idx) |-> one(idx[i][1], idx[i][2])])

\* print_summary of rfm-offers and shop-offers: the four summary lines go to the log; the
\* error list is printed under a second header
print_summary_rfm(Lg) ==
    <<Header("final report"), Info("total"), Info("passed"), Info("failed"), Info("warnings")>>
    \o IF Lg.stats.failed_checks > 0 THEN <<Header("error list")>> ELSE <<>>

-----------------------------------------------------------------------------
(* shop-offers: ShopOffersValidator.  A requirements row is a function from *)
(* column names to cells; ShopColumns is the header, in file order.  The     *)
(* special alias of the subscription points grant is written in Latin.       *)

ShopColumns == <<"Action", "alias", "Offer", "Price",
                 "Award_points(17909)", "Award_bad", "NeedResources(17907)">>

ShopRow(action, alias, offer, price, points, bad, need) ==
    ("Action" :> action) @@ ("alias" :> alias) @@ ("Offer" :> offer) @@ ("Price" :> price)
    @@ ("Award_points(17909)" :> points) @@ ("Award_bad" :> bad)
    @@ ("NeedResources(17907)" :> need)

ShopRows == <<
    ShopRow("601", "passOffer", "701", "$4.99", "100", "", "2"),
    ShopRow("6x", "pack", "702", "1.5", "", "", ""),
    ShopRow("602", "Vydacha ochkov podpiski", "", "", "x", "1", ""),
    ShopRow("603", "pack", "702", "1.5", "5", "", ""),
    ShopRow("604", "pack", "7o1", "1", "", "", ""),
    ShopRow("605", "pack", "", "", "", "", "") >>

special_aliases == {"Vydacha ochkov podpiski"}

special_offer_checks == {"passOffer", "mainOffer", "subscriptionOffer"}

ShopAction601 ==
    [id_at |-> I(601),
     awards |-> <<[type |-> S("item"), itemId |-> I(17909), count |-> I(100)]>>,
     needResources |-> <<[type |-> S("item"), itemId |-> I(17907), count |-> I(3)]>>]

ShopAction602 == [id_at |-> I(602), awards |-> <<>>]

ShopAction603 ==
    [id_at |-> S("603"), awards |-> <<[type |-> S("item"), itemId |-> I(17909)]>>]

ShopAction0 == [id_at |-> I(0), awards |-> <<>>]

ShopActionsFiles == <<
    Missing,
    File(<<ShopAction601, ShopAction602, ShopAction603>>),
    File(<<ShopAction0, ShopAction603, [awards |-> <<>>]>>),
    File(<<ShopAction601, [id_at |-> S("abc")]>>) >>

ShopPromoFiles == <<
    Missing,
    File([awards |-> <<I(603)>>,
          parameters |-> [buyWindowParams |-> [passOffer |-> [actionId |-> S("601")]]]]),
    File([awards |-> <<I(601)>>, parameters |-> [other |-> I(1)]]) >>

ShopOffer701 == [id_at |-> I(701), actionId |-> I(601), packet_id |-> I(801)]

ShopOffer702 == [id_at |-> I(702), actionId |-> I(603), USD |-> S("1.5")]

ShopOffer701b == [id_at |-> I(701), actionId |-> S("n/a"), packet_id |-> I(801)]

ShopOffersFiles == <<
    Missing,
    File([offers |-> << << <<ShopOffer701, ShopOffer702>> >> >>,
          prices |-> <<[id_at |-> I(801), USD |-> Fl(49900)],
                       [id_at |-> I(702), USD |-> I(2)]>>]),
    File([offers |-> << << <<ShopOffer701b>>, <<ShopOffer702>> >> >>]) >>

\* requirements_by_action_id and the warnings of its construction
RECURSIVE ShopByAction(_, _, _)
ShopByAction(requirements, i, acc) ==
    IF i > Len(requirements) THEN acc
    ELSE LET req == requirements[i]
         IN  IF "Action" \in DOMAIN req /\ req["Action"] # ""
             THEN IF IntOfStr(req["Action"]).ok
                  THEN ShopByAction(requirements, i + 1,
                         [d |-> DictSet(acc.d, I(IntOfStr(req["Action"]).v), req),
                          calls |-> acc.calls])
                  ELSE ShopByAction(requirements, i + 1,
                         [d |-> acc.d,
                          calls |-> Append(acc.calls,
                                           Warn("bad Action id in requirements", None))])
             ELSE ShopByAction(requirements, i + 1, acc)

\* add every element of q that has an '@id' to the index, keyed by the raw id
RECURSIVE ShopIndexById(_, _, _)
ShopIndexById(q, i, idx) ==
    IF i > Len(q) THEN idx
    ELSE ShopIndexById(q, i + 1,
            IF "id_at" \in DOMAIN q[i] THEN DictSet(idx, q[i]["id_at"], q[i]) ELSE idx)

ShopOffersById(offers) ==
    LET nested == IF "offers" \in DOMAIN offers
                  THEN Concat(Concat(offers["offers"])) ELSE <<>>
        prices == IF "prices" \in DOMAIN offers THEN offers["prices"] ELSE <<>>
    IN  ShopIndexById(prices, 1, ShopIndexById(nested, 1, <<>>))

Shop_init(inp) ==
    LET promo == Load(inp.promo)
        requirements == Load(inp.requirements)
        actions == Load(inp.actions)
        offers == Load(inp.offers)
        byaction == ShopByAction(requirements, 1, [d |-> <<>>, calls |-> <<>>])
        byid == IntActionsById(actions, 1, [ok |-> TRUE, d |-> <<>>])
    IN  [self  |-> [promo |-> promo, requirements |-> requirements, actions |-> actions,
                    offers |-> offers,
                    requirements_by_action_id |-> byaction.d,
                    offers_by_id |-> ShopOffersById(offers),
                    actions_by_id |-> byid.d,
                    promo_action_ids |-> IF "awards" \in DOMAIN promo
                                         THEN SeqToSet(promo["awards"]) ELSE {}],
         calls |-> Concat(<< <<Header("shop offers validation"), Info("files"), Info("promo"),
                               Info("requirements"), Info("actions"), Info("offers")>>,
                             LoadCalls(inp.promo, "promo.json"),
                             LoadCalls(inp.requirements, "requirements.csv"),
                             LoadCalls(inp.actions, "actions.json"),
                             LoadCalls(inp.offers, "offers.json"),
                             byaction.calls,
                             IF ~byid.ok THEN <<Raise("ValueError")>>
                             ELSE <<Info("requirements count"), Info("actions count"),
                                    Info("offers count"), Info("promo actions count")>> >>)]

validate_action_ids_in_actions_shop(sf) ==
    LET idx == sf.requirements_by_action_id
    IN  <<Header("phase: action ids in actions.json")>>
        \o [i \in 1..Len(idx) |->
              Check(idx[i][1], "action id in actions.json",
                    DictHas(sf.actions_by_id, idx[i][1]), S("present"),
                    PresentOrAbsent(DictHas(sf.actions_by_id, idx[i][1])),
                    None, "ACTION_EXISTS")]

\* one pass over req.items() for the columns that start with the prefix
ShopItemCalls(action_id, req, entries, prefix, name, tag) ==
    LET one(column) ==
            LET value == req[column]
                parts == SplitChar(column, "(")
                item_id == IntOfStr(RemoveChar(parts[2], ")"))
                expected_count == IntOfStr(value)
                hit(e) == Get(e, "type", None) = S("item")
                          /\ Get(e, "itemId", None) = I(item_id.v)
                at == FirstIdx(entries, hit)
                actual_count == IF at # 0 THEN Get(entries[at], "count", I(0)) ELSE I(0)
            IN  IF value = "" \/ ~StartsWith(column, prefix) THEN <<>>
                ELSE IF Len(parts) # 2
                THEN <<Warn("bad column format", action_id)>>
                ELSE IF ~item_id.ok \/ ~expected_count.ok
                THEN <<Warn("bad value", action_id)>>
                ELSE <<Check(action_id, name,
                             at # 0 /\ actual_count = I(expected_count.v),
                             I(expected_count.v),
                             IF at # 0 THEN actual_count ELSE S("not found"),
                             None, tag)>>
    IN  Concat([k \in 1..Len(ShopColumns) |->
                  IF ShopColumns[k] \in DOMAIN req THEN one(ShopColumns[k]) ELSE <<>>])

validate_action_rewards(sf) ==
    LET idx == sf.requirements_by_action_id
        one(action_id, req) ==
            IF ~DictHas(sf.actions_by_id, action_id)
            THEN <<Warn("reward check skipped: action missing", action_id)>>
            ELSE LET action == DictGet(sf.actions_by_id, action_id)
                 IN  ShopItemCalls(action_id, req, Get(action, "awards", <<>>),
                                   "Award_", "award in action", "AWARD_CHECK")
                     \o ShopItemCalls(action_id, req, Get(action, "needResources", <<>>),
                                      "NeedResources", "needed resource in action",
                                      "NEED_RESOURCE_CHECK")
    IN  <<Header("phase: rewards in actions")>>
        \o Concat([i \in 1..Len(idx) |-> one(idx[i][1], idx[i][2])])

validate_action_ids_in_promo_shop(sf) ==
    LET idx == sf.requirements_by_action_id
        buy_window_params == sf.promo["parameters"]["buyWindowParams"]
        one(action_id, req) ==
            LET alias == Get(req, "alias", "unknown")
            IN  IF alias \in special_offer_checks
                THEN IF alias \in DOMAIN buy_window_params
                     THEN IF "actionId" \in DOMAIN buy_window_params[alias]
                          THEN <<Check(action_id, "action id in buyWindowParams parameter",
                                       StrOf(buy_window_params[alias]["actionId"])
                                           = StrOf(action_id),
                                       action_id, buy_window_params[alias]["actionId"],
                                       None, "ACTION_IN_PROMO_PARAM")>>
                          ELSE <<Check(action_id, "actionId in buyWindowParams parameter",
                                       FALSE, S("present"), S("absent"),
                                       None, "ACTION_ID_EXISTS")>>
                     ELSE <<Check(action_id, "parameter in buyWindowParams",
                                  FALSE, S("present"), S("absent"),
                                  None, "OFFER_PARAM_EXISTS")>>
                ELSE IF alias \in special_aliases
                THEN <<Info("promo awards check skipped for alias")>>
                ELSE <<Check(action_id, "action id in promo awards",
                             action_id \in sf.promo_action_ids, S("present"),
                             PresentOrAbsent(action_id \in sf.promo_action_ids),
                             None, "ACTION_IN_PROMO_AWARDS")>>
    IN  <<Header("phase: action ids in promo.json parameters")>>
        \o IF "parameters" \notin DOMAIN sf.promo
           THEN <<Warn("parameters missing in promo.json", None)>>
           ELSE IF "buyWindowParams" \notin DOMAIN sf.promo["parameters"]
           THEN <<Warn("buyWindowParams missing in promo.json.parameters", None)>>
           ELSE Concat([i \in 1..Len(idx) |-> one(idx[i][1], idx[i][2])])

\* expected_price with one leading '$' removed
ShopStripDollar(expected_price) ==
    IF StartsWith(expected_price, "$") THEN SubSeq(expected_price, 2, Len(expected_price))
    ELSE expected_price

\* the price block of validate_action_offer_links; the '$' text of a price
\* is kept as the float it is formatted from
ShopPriceCalls(sf, action_id, offer, expected_price) ==
    LET expected_price_float == FloatOfStr(ShopStripDollar(expected_price))
        prices == IF "prices" \in DOMAIN sf.offers THEN sf.offers["prices"] ELSE <<>>
        isPacket(price) == Get(price, "id_at", None) = Get(offer, "packet_id", None)
        at == FirstIdx(prices, isPacket)
        packet_price == IF at # 0 THEN Get(prices[at], "USD", None) ELSE None
        direct_price == Get(offer, "USD", None)
    IN  IF expected_price # "" /\ "packet_id" \in DOMAIN offer
        THEN IF ~expected_price_float.ok
             THEN <<Warn("bad price format or packet_id", action_id)>>
             ELSE IF at # 0 /\ ~IsNone(packet_price)
             THEN IF ~FloatOf(packet_price).ok
                  THEN <<Warn("bad price format or packet_id", action_id)>>
                  ELSE <<Check(action_id, "offer price by packet_id",
                               PriceMatch(FloatOf(packet_price).v, expected_price_float.v),
                               Fl(expected_price_float.v), Fl(FloatOf(packet_price).v),
                               None, "PRICE_MATCH")>>
             ELSE <<Check(action_id, "USD price by packet_id found", FALSE,
                          Fl(expected_price_float.v),
                          IF at = 0 THEN S("not found") ELSE S("USD missing"),
                          None, "PRICE_EXISTS")>>
        ELSE IF expected_price # ""
        THEN IF ~expected_price_float.ok
             THEN <<Warn("bad price format", action_id)>>
             ELSE IF ~IsNone(direct_price)
             THEN IF ~FloatOf(direct_price).ok
                  THEN <<Warn("bad price format", action_id)>>
                  ELSE <<Check(action_id, "offer price (direct)",
                               PriceMatch(FloatOf(direct_price).v, expected_price_float.v),
                               Fl(expected_price_float.v), Fl(FloatOf(direct_price).v),
                               None, "PRICE_DIRECT_MATCH")>>
             ELSE <<Check(action_id, "USD price of offer defined", FALSE,
                          Fl(expected_price_float.v), S("absent"), None, "PRICE_EXISTS")>>
        ELSE <<Warn("no price for action", action_id)>>

\* the checks of a row recorded without regard to the result before them
validate_action_offer_links_Ungated(sf) ==
    LET idx == sf.requirements_by_action_id
        one(action_id, req) ==
            LET alias == Get(req, "alias", "unknown")
                offer_id_str == Get(req, "Offer", "")
                offer_id == IntOfStr(offer_id_str)
                offer_exists == DictHas(sf.offers_by_id, I(offer_id.v))
                offer == IF offer_exists THEN DictGet(sf.offers_by_id, I(offer_id.v)) ELSE <<>>
                action_id_in_offer == Get(offer, "actionId", None)
            IN  IF alias \in special_aliases
                THEN <<Info("offer check skipped for alias")>>
                ELSE IF offer_id_str = ""
                THEN <<Warn("no Offer id for action", action_id)>>
                ELSE IF ~offer_id.ok
                THEN <<Warn("bad Offer id", action_id)>>
                ELSE <<Check(action_id, "offer in offers.json", offer_exists, S("present"),
                             PresentOrAbsent(offer_exists), None, "OFFER_EXISTS")>>
                     \o (IF IsNone(action_id_in_offer)
                         THEN <<Check(action_id, "offer has actionId", FALSE, S("present"),
                                      S("absent"), None, "ACTION_ID_IN_OFFER")>>
                         ELSE IF ~IntOf(action_id_in_offer).ok
                         THEN <<Check(action_id, "well-formed actionId in offer", FALSE,
                                      action_id, action_id_in_offer,
                                      S("actionId of the offer has a bad type"),
                                      "ACTION_ID_TYPE")>>
                         ELSE <<Check(action_id, "action id of offer is the expected one",
                                      I(IntOf(action_id_in_offer).v) = action_id,
                                      action_id, I(IntOf(action_id_in_offer).v),
                                      None, "ACTION_OFFER_MATCH")>>)
                     \o ShopPriceCalls(sf, action_id, offer, Strip(Get(req, "Price", "")))
    IN  <<Header("phase: action and offer links")>>
        \o Concat([i \in 1..Len(idx) |-> one(idx[i][1], idx[i][2])])

validate_action_offer_links(sf) ==
    LET idx == sf.requirements_by_action_id
        one(action_id, req) ==
            LET alias == Get(req, "alias", "unknown")
                offer_id_str == Get(req, "Offer", "")
                offer_id == IntOfStr(offer_id_str)
                offer_exists == DictHas(sf.offers_by_id, I(offer_id.v))
                offer == DictGet(sf.offers_by_id, I(offer_id.v))
                action_id_in_offer == Get(offer, "actionId", None)
            IN  IF alias \in special_aliases
                THEN <<Info("offer check skipped for alias")>>
                ELSE IF offer_id_str = ""
                THEN <<Warn("no Offer id for action", action_id)>>
                ELSE IF ~offer_id.ok
                THEN <<Warn("bad Offer id", action_id)>>
                ELSE <<Check(action_id, "offer in offers.json", offer_exists, S("present"),
                             PresentOrAbsent(offer_exists), None, "OFFER_EXISTS")>>
                     \o IF ~offer_exists THEN <<>>
                        ELSE IF IsNone(action_id_in_offer)
                        THEN <<Check(action_id, "offer has actionId", FALSE, S("present"),
                                     S("absent"), None, "ACTION_ID_IN_OFFER")>>
                        ELSE IF ~IntOf(action_id_in_offer).ok
                        THEN <<Check(action_id, "well-formed actionId in offer", FALSE,
                                     action_id, action_id_in_offer,
                                     S("actionId of the offer has a bad type"),
                                     "ACTION_ID_TYPE")>>
                        ELSE <<Check(action_id, "action id of offer is the expected one",
                                     I(IntOf(action_id_in_offer).v) = action_id,
                                     action_id, I(IntOf(action_id_in_offer).v),
                                     None, "ACTION_OFFER_MATCH")>>
                             \o ShopPriceCalls(sf, action_id, offer,
                                               Strip(Get(req, "Price", "")))
    IN  <<Header("phase: action and offer links")>>
        \o Concat([i \in 1..Len(idx) |-> one(idx[i][1], idx[i][2])])

-----------------------------------------------------------------------------
(* Spec: one run of main() of one of the validators on the files on disk.   *)

MaxRows == 2

\* a requirements.csv with all six columns
EndNewsTable(ix) == File(WithHeader(Rows(EndNewsRows, ix), EndNewsWide))

\* a requirements.csv whose header is alias,from,to and whose only row is
\* 'double points(2)'
EndNewsNarrowTable == File(WithHeader(<<EndNewsRows[2]>>, EndNewsNarrow))

InitEndNews ==
    /\ variant = "end_news"
    /\ \E a \in 1..Len(EndNewsPromoFiles), b \in 1..Len(DoublePointsPromoFiles),
          c \in 1..Len(EndNewsMainPromoFiles),
          reqs \in {EndNewsTable(ix) : ix \in IdxSeqs(MaxRows, Len(EndNewsRows))}
                    \cup {EndNewsNarrowTable, Missing} :
          input = [end_news_promo |-> EndNewsPromoFiles[a],
                   double_points_promo |-> DoublePointsPromoFiles[b],
                   promo |-> EndNewsMainPromoFiles[c],
                   requirements |-> reqs,
                   json_output |-> FALSE]

InitLottery ==
    /\ variant = "lottery"
    /\ \E a \in 1..Len(LotteryPromoFiles), b \in 1..Len(LotteryActionsFiles),
          present \in BOOLEAN, json \in BOOLEAN,
          ix \in IdxSeqs(MaxRows, Len(LotteryRows)) :
          /\ ~present => ix = <<>>
          /\ input = [promo |-> LotteryPromoFiles[a],
                      actions |-> LotteryActionsFiles[b],
                      requirements |-> IF present THEN File(Rows(LotteryRows, ix))
                                       ELSE Missing,
                      json_output |-> json]

InitMain ==
    /\ variant = "main"
    /\ \E a \in 1..Len(MainPromoFiles), b \in 1..Len(MainActionsFiles),
          present \in BOOLEAN, ix \in IdxSeqs(MaxRows, Len(MainRows)) :
          /\ ~present => ix = <<>>
          /\ input = [promo |-> MainPromoFiles[a],
                      actions |-> MainActionsFiles[b],
                      requirements |-> IF present THEN File(Rows(MainRows, ix))
                                       ELSE Missing,
                      json_output |-> FALSE]

InitQuests ==
    /\ variant = "quests"
    /\ \E a \in 1..Len(QuestsPromoFiles), b \in 1..Len(QuestsActionsFiles),
          present \in BOOLEAN, ix \in IdxSeqs(MaxRows, Len(QuestsRows)) :
          /\ ~present => ix = <<>>
          /\ input = [promo |-> QuestsPromoFiles[a],
                      actions |-> QuestsActionsFiles[b],
                      requirements |-> IF present THEN File(Rows(QuestsRows, ix))
                                       ELSE Missing,
                      json_output |-> FALSE]

InitRfm ==
    /\ variant = "rfm"
    /\ \E a \in 1..Len(RfmFileSets), b \in 1..Len(RfmActionsFiles),
          reqs \in {File(Rows(RfmRows, ix)) : ix \in IdxSeqs(MaxRows, Len(RfmRows))}
                    \cup {RfmNoDigitsTable, Missing} :
          input = [rfm_files |-> RfmFileSets[a],
                   actions |-> RfmActionsFiles[b],
                   requirements |-> reqs,
                   json_output |-> FALSE]

InitShop ==
    /\ variant = "shop"
    /\ \E a \in 1..Len(ShopPromoFiles), b \in 1..Len(ShopActionsFiles),
          c \in 1..Len(ShopOffersFiles),
          present \in BOOLEAN, ix \in IdxSeqs(MaxRows, Len(ShopRows)) :
          /\ ~present => ix = <<>>
          /\ input = [promo |-> ShopPromoFiles[a],
                      actions |-> ShopActionsFiles[b],
                      offers |-> ShopOffersFiles[c],
                      requirements |-> IF present THEN File(Rows(ShopRows, ix))
                                       ELSE Missing,
                      json_output |-> FALSE]

Init ==
    /\ InitEndNews \/ InitLottery \/ InitMain \/ InitQuests \/ InitRfm \/ InitShop
    /\ self = <<>>
    /\ FreshLedger
    /\ pc = "init"
    /\ csv_file = NoFile
    /\ log_file = NoFile
    /\ raised = "none"
    /\ exit_status = None

Frame == UNCHANGED <<variant, input, csv_file, log_file>>

\* a validate_all that returns to print_summary once a check has failed
PhaseStep_StopOnFailure(header, calls, next) ==
    /\ Step(header \o calls, IF stats.failed_checks > 0 THEN "print_summary" ELSE next)
    /\ UNCHANGED self
    /\ Frame

\* a phase of validate_all: start_phase (when the phase opens one) and the
\* phase's calls
PhaseStep(header, calls, next) ==
    /\ Step(header \o calls, next)
    /\ UNCHANGED self
    /\ Frame

EndNewsConstruct ==
    /\ variant = "end_news"
    /\ pc = "init"
    /\ self' = EndNews_init(input).self
    /\ Step(EndNews_init(input).calls, "validate_end_news")
    /\ Frame

EndNewsValidateEndNews ==
    /\ variant = "end_news"
    /\ pc = "validate_end_news"
    /\ PhaseStep(<<Header("phase: end news window")>>,
                 validate_end_news(self), "validate_double_points")

EndNewsValidateDoublePoints ==
    /\ variant = "end_news"
    /\ pc = "validate_double_points"
    /\ PhaseStep(<<Header("phase: double points window")>>,
                 validate_double_points(self), "validate_items_to_cash_exchange")

EndNewsValidateItemsToCashExchange ==
    /\ variant = "end_news"
    /\ pc = "validate_items_to_cash_exchange"
    /\ PhaseStep(<<Header("phase: exchange rate")>>,
                 validate_items_to_cash_exchange(self), "print_summary")

LotteryConstruct ==
    /\ variant = "lottery"
    /\ pc = "init"
    /\ self' = Lottery_init(input).self
    /\ Step(Lottery_init(input).calls, "validate_actions_presence")
    /\ Frame

LotteryValidateActionsPresence ==
    /\ variant = "lottery"
    /\ pc = "validate_actions_presence"
    /\ PhaseStep(<<Header("phase: actions presence")>>,
                 validate_actions_presence(self), "validate_actions_content")

LotteryValidateActionsContent ==
    /\ variant = "lottery"
    /\ pc = "validate_actions_content"
    /\ PhaseStep(<<Header("phase: actions content")>>,
                 validate_actions_content(self), "validate_need_action")

LotteryValidateNeedAction ==
    /\ variant = "lottery"
    /\ pc = "validate_need_action"
    /\ PhaseStep(<<Header("phase: needAction")>>,
                 validate_need_action_lottery(self), "print_summary")

MainConstruct ==
    /\ variant = "main"
    /\ pc = "init"
    /\ \E promo_order \in SetOrders(Get(Load(input.promo), "awards", <<>>)) :
          /\ self' = Main_init(input, promo_order).self
          /\ Step(Main_init(input, promo_order).calls, "validate_action_ids_in_promo")
    /\ Frame

MainValidateActionIdsInPromo ==
    /\ variant = "main"
    /\ pc = "validate_action_ids_in_promo"
    /\ PhaseStep(<<Header("phase 1: action presence")>>,
                 validate_action_ids_in_promo(self), "validate_action_ids_in_actions")

MainValidateActionIdsInActions ==
    /\ variant = "main"
    /\ pc = "validate_action_ids_in_actions"
    /\ PhaseStep(<<>>,
                 validate_action_ids_in_actions(self), "validate_action_content")

MainValidateActionContent ==
    /\ variant = "main"
    /\ pc = "validate_action_content"
    /\ PhaseStep(<<Header("phase 2: action content")>>,
                 validate_action_content(self), "validate_need_action")

MainValidateNeedAction ==
    /\ variant = "main"
    /\ pc = "validate_need_action"
    /\ PhaseStep(<<Header("phase 3: needAction")>>,
                 validate_need_action(self), "print_summary")

QuestsConstruct ==
    /\ variant = "quests"
    /\ pc = "init"
    /\ self' = Quests_init(input).self
    /\ Step(Quests_init(input).calls, "validate_complexity_in_actions")
    /\ Frame

QuestsValidateComplexityInActions ==
    /\ variant = "quests"
    /\ pc = "validate_complexity_in_actions"
    /\ PhaseStep(<<Header("phase 1: exercise presence")>>,
                 validate_complexity_in_actions(self), "validate_complexity_in_promo")

QuestsValidateComplexityInPromo ==
    /\ variant = "quests"
    /\ pc = "validate_complexity_in_promo"
    /\ PhaseStep(<<>>, validate_complexity_in_promo(self), "validate_complexity_config")

QuestsValidateComplexityConfig ==
    /\ variant = "quests"
    /\ pc = "validate_complexity_config"
    /\ PhaseStep(<<Header("phase 2: exercise configuration")>>,
                 validate_complexity_config(self), "validate_quest_awards")

QuestsValidateQuestAwards ==
    /\ variant = "quests"
    /\ pc = "validate_quest_awards"
    /\ PhaseStep(<<Header("phase 3: award configuration")>>,
                 validate_quest_awards(self), "print_summary")

RfmConstruct ==
    /\ variant = "rfm"
    /\ pc = "init"
    /\ self' = Rfm_init(input).self
    /\ Step(Rfm_init(input).calls, "validate_action_ids_in_actions")
    /\ Frame

RfmValidateActionIdsInActions ==
    /\ variant = "rfm"
    /\ pc = "validate_action_ids_in_actions"
    /\ PhaseStep(<<>>, validate_action_ids_in_actions_rfm(self),
                 "validate_action_rewards_and_resources")

RfmValidateActionRewardsAndResources ==
    /\ variant = "rfm"
    /\ pc = "validate_action_rewards_and_resources"
    /\ PhaseStep(<<>>, validate_action_rewards_and_resources(self), "validate_rfm_files")

RfmValidateRfmFiles ==
    /\ variant = "rfm"
    /\ pc = "validate_rfm_files"
    /\ PhaseStep(<<>>, validate_rfm_files(self), "print_summary")

ShopConstruct ==
    /\ variant = "shop"
    /\ pc = "init"
    /\ self' = Shop_init(input).self
    /\ Step(Shop_init(input).calls, "validate_action_ids_in_actions")
    /\ Frame

ShopValidateActionIdsInActions ==
    /\ variant = "shop"
    /\ pc = "validate_action_ids_in_actions"
    /\ PhaseStep(<<>>, validate_action_ids_in_actions_shop(self), "validate_action_rewards")

ShopValidateActionRewards ==
    /\ variant = "shop"
    /\ pc = "validate_action_rewards"
    /\ PhaseStep(<<>>, validate_action_rewards(self), "validate_action_ids_in_promo")

ShopValidateActionIdsInPromo ==
    /\ variant = "shop"
    /\ pc = "validate_action_ids_in_promo"
    /\ PhaseStep(<<>>, validate_action_ids_in_promo_shop(self), "validate_action_offer_links")

ShopValidateActionOfferLinks ==
    /\ variant = "shop"
    /\ pc = "validate_action_offer_links"
    /\ PhaseStep(<<>>, validate_action_offer_links(self), "print_summary")

\* main() of end-news writes the log first and the CSV report second; the
\* other validators write the CSV report first
AfterSummary(v) == IF v = "end_news" THEN "save_detailed_log" ELSE "save_report_to_csv"

AfterCsv(v) == IF v = "end_news" THEN "exit" ELSE "save_detailed_log"

AfterLog(v) == IF v = "end_news" THEN "save_report_to_csv" ELSE "exit"

\* print_summary of end-news: the summary and the error and warning lists
\* go to the log through log_info
print_summary_end_news(Lg) ==
    Concat(<< <<Header("results"), Info("summary")>>,
              IF Lg.errors # <<>>
              THEN <<Info("errors")>> \o [i \in 1..Len(Lg.errors) |-> Info("error line")]
              ELSE <<>>,
              IF Lg.warnings # <<>>
              THEN <<Info("warnings")>> \o [i \in 1..Len(Lg.warnings) |-> Info("warning line")]
              ELSE <<>> >>)

\* print_summary of main-reward-lines and quests-weekly: the header, the
\* rest is printed only
print_summary_main(Lg) == <<Header("results")>>

print_summary(v, sf, Lg) ==
    CASE v = "end_news" -> print_summary_end_news(Lg)
      [] v = "lottery"  -> print_summary_lottery(sf, Lg)
      [] v = "rfm"      -> print_summary_rfm(Lg)
      [] v = "shop"     -> print_summary_rfm(Lg)
      [] OTHER          -> print_summary_main(Lg)

PrintSummary ==
    /\ pc = "print_summary"
    /\ Step(print_summary(variant, self, Ledger), AfterSummary(variant))
    /\ UNCHANGED self
    /\ Frame

CsvRows(v, sf, m) ==
    CASE v = "end_news" -> EndNewsCsvRows(sf, m)
      [] v = "lottery"  -> LotteryCsvRows(m)
      [] OTHER          -> MapCsvRows(m)

\* a save_report_to_csv that records a failed write as a failed check
SaveReportToCsv_FailureCounted ==
    /\ pc = "save_report_to_csv"
    /\ \E written \in BOOLEAN :
          IF written
          THEN /\ csv_file' = [written |-> TRUE, rows |-> CsvRows(variant, self, error_map)]
               /\ Step(<<Info("report saved")>>, AfterCsv(variant))
          ELSE /\ csv_file' = csv_file
               /\ Step(<<Check(None, "report saved", FALSE, None, None, None, "REPORT")>>,
                       AfterCsv(variant))
    /\ UNCHANGED <<variant, input, self, log_file>>

\* save_report_to_csv: the report is written, or the write fails and the
\* failure is logged
SaveReportToCsv ==
    /\ pc = "save_report_to_csv"
    /\ \E written \in BOOLEAN :
          IF written
          THEN /\ csv_file' = [written |-> TRUE, rows |-> CsvRows(variant, self, error_map)]
               /\ Step(<<Info("report saved")>>, AfterCsv(variant))
          ELSE /\ csv_file' = csv_file
               /\ Step(<<Err("report save error", None)>>, AfterCsv(variant))
    /\ UNCHANGED <<variant, input, self, log_file>>

SaveDetailedLog ==
    /\ pc = "save_detailed_log"
    /\ \E written \in BOOLEAN :
          IF written
          THEN /\ log_file' = [written |-> TRUE, rows |-> info_logs]
               /\ Step(<<Info("log saved")>>, AfterLog(variant))
          ELSE /\ log_file' = log_file
               /\ Step(<<Err("log save error", None)>>, AfterLog(variant))
    /\ UNCHANGED <<variant, input, self, csv_file>>

\* the end of main(): the lottery calls sys.exit(1 if failed_checks > 0
\* else 0), the other validators return from main()
Exit ==
    /\ pc = "exit"
    /\ pc' = "done"
    /\ exit_status' = IF variant = "lottery" /\ stats.failed_checks > 0 THEN I(1) ELSE I(0)
    /\ UNCHANGED <<variant, input, self, stats, errors, warnings, info_logs, error_map,
                   csv_file, log_file, raised>>

Next ==
    \/ EndNewsConstruct
    \/ EndNewsValidateEndNews
    \/ EndNewsValidateDoublePoints
    \/ EndNewsValidateItemsToCashExchange
    \/ LotteryConstruct
    \/ LotteryValidateActionsPresence
    \/ LotteryValidateActionsContent
    \/ LotteryValidateNeedAction
    \/ MainConstruct
    \/ MainValidateActionIdsInPromo
    \/ MainValidateActionIdsInActions
    \/ MainValidateActionContent
    \/ MainValidateNeedAction
    \/ QuestsConstruct
    \/ QuestsValidateComplexityInActions
    \/ QuestsValidateComplexityInPromo
    \/ QuestsValidateComplexityConfig
    \/ QuestsValidateQuestAwards
    \/ RfmConstruct
    \/ RfmValidateActionIdsInActions
    \/ RfmValidateActionRewardsAndResources
    \/ RfmValidateRfmFiles
    \/ ShopConstruct
    \/ ShopValidateActionIdsInActions
    \/ ShopValidateActionRewards
    \/ ShopValidateActionIdsInPromo
    \/ ShopValidateActionOfferLinks
    \/ PrintSummary
    \/ SaveReportToCsv
    \/ SaveDetailedLog
    \/ Exit

Spec == Init /\ [][Next]_vars

-----------------------------------------------------------------------------
(* SpecDates: _normalize_date_format of rfm-offers applied to a date string *)
(* and again to its own result.  self holds the successive results.         *)

MaxTrail == 1

MaxApplications == 2

\* the texts of at most n characters that may follow the seconds
RECURSIVE DateTrails(_)
DateTrails(n) ==
    IF n = 0 THEN {""}
    ELSE DateTrails(n - 1) \cup {t \o c : t \in DateTrails(n - 1), c \in {"Z", "0"}}

\* the date cells of requirements.csv and the from / to values of an rfm file
DateStrings ==
    {""} \cup
    {d \o sep \o h \o ":" \o m \o ":" \o sec \o t :
        d \in {"2024-01-05", "2024-1-05"}, sep \in {" ", "T"},
        h \in {"7", "07", "12", "0"}, m \in {"00", "5"}, sec \in {"00", "59"},
        t \in DateTrails(MaxTrail)}

InitDates ==
    /\ variant = "rfm"
    /\ input \in {[date_str |-> d] : d \in DateStrings}
    /\ self = <<>>
    /\ FreshLedger
    /\ pc = "normalize"
    /\ csv_file = NoFile
    /\ log_file = NoFile
    /\ raised = "none"
    /\ exit_status = None

NormalizeDate ==
    /\ pc = "normalize"
    /\ Len(self) < MaxApplications
    /\ self' = Append(self, _normalize_date_format(IF self = <<>> THEN input.date_str
                                                   ELSE self[Len(self)]))
    /\ UNCHANGED <<variant, input, stats, errors, warnings, info_logs, error_map, pc,
                   csv_file, log_file, raised, exit_status>>

NextDates == NormalizeDate

SpecDates == InitDates /\ [][NextDates]_vars

-----------------------------------------------------------------------------
(* SpecSegments: the segment check of validate_rfm_files on one offer whose *)
(* 'segment' cell and isNotInOneOfRFM30Segments value are comma-joined      *)
(* lists of entries.                                                        *)

MaxSegments == 2

\* the entries a segment list is written with
SegmentEntries == <<"a", "b", " a ", "">>

SegmentLists == {Rows(SegmentEntries, ix) : ix \in IdxSeqs(MaxSegments, Len(SegmentEntries))}

InitSegments ==
    /\ variant = "rfm"
    /\ input \in {[expected |-> e, actual |-> a, present |-> p] :
                     e \in SegmentLists, a \in SegmentLists, p \in BOOLEAN}
    /\ self = <<>>
    /\ FreshLedger
    /\ pc = "segments"
    /\ csv_file = NoFile
    /\ log_file = NoFile
    /\ raised = "none"
    /\ exit_status = None

RfmCheckSegments ==
    /\ pc = "segments"
    /\ LET req == [segment |-> JoinComma(input.expected)]
           settings_by_conditions ==
               IF input.present
               THEN <<[conditions |->
                          [isNotInOneOfRFM30Segments |-> S(JoinComma(input.actual))]]>>
               ELSE <<[conditions |-> [hasItems |-> <<>>]]>>
       IN  Step(RfmSegmentsCalls("rfm1", req, settings_by_conditions), "done")
    /\ UNCHANGED <<variant, input, self, csv_file, log_file>>

NextSegments == RfmCheckSegments

SpecSegments == InitSegments /\ [][NextSegments]_vars

-----------------------------------------------------------------------------
(* SpecPrices: the price checks of rfm-offers (cash of needResources) and   *)
(* of shop-offers (USD by packet_id, USD of the offer) on one requirement   *)
(* whose price cell is input.expected.text and one configured price         *)
(* input.actual.                                                            *)

MaxOffset == 11

\* price cells of requirements.csv, with their values in 1/10000
ExpectedPrices ==
    {[text |-> "10.001", v |-> 100010], [text |-> "10", v |-> 100000],
     [text |-> "9.99", v |-> 99900]}

\* configured prices around an expected one, in 1/10000
ActualPrices(e) == {Fl(e.v + d) : d \in ((0 - MaxOffset)..MaxOffset) \cup {90}}

InitPrices ==
    /\ \E via \in {"rfm", "shop_packet", "shop_direct"}, e \in ExpectedPrices :
          \E a \in ActualPrices(e) :
             /\ variant = IF via = "rfm" THEN "rfm" ELSE "shop"
             /\ input = [via |-> via, expected |-> e, actual |-> a]
    /\ self = <<>>
    /\ FreshLedger
    /\ pc = "price"
    /\ csv_file = NoFile
    /\ log_file = NoFile
    /\ raised = "none"
    /\ exit_status = None

RfmCheckPrice ==
    /\ pc = "price"
    /\ input.via = "rfm"
    /\ LET req == [offer |-> "rfm1", action |-> "501", award |-> "100",
                   price |-> input.expected.text]
           action == [id_at |-> I(501), awards |-> <<>>,
                      needResources |-> <<[type |-> S("cash"), count |-> input.actual]>>]
           sf == [requirements_by_offer |-> << <<"rfm1", req>> >>,
                  actions_by_id |-> << <<I(501), action>> >>]
       IN  Step(validate_action_rewards_and_resources(sf), "done")
    /\ UNCHANGED <<variant, input, self, csv_file, log_file>>

ShopCheckPrice ==
    /\ pc = "price"
    /\ input.via \in {"shop_packet", "shop_direct"}
    /\ LET req == ShopRow("601", "pack", "701", "$" \o input.expected.text, "", "", "")
           offer == IF input.via = "shop_packet"
                    THEN [id_at |-> I(701), actionId |-> I(601), packet_id |-> I(801)]
                    ELSE [id_at |-> I(701), actionId |-> I(601), USD |-> input.actual]
           prices == IF input.via = "shop_packet"
                     THEN <<[id_at |-> I(801), USD |-> input.actual]>> ELSE <<>>
           sf == [requirements_by_action_id |-> << <<I(601), req>> >>,
                  offers_by_id |-> << <<I(701), offer>> >>,
                  offers |-> [prices |-> prices]]
       IN  Step(validate_action_offer_links(sf), "done")
    /\ UNCHANGED <<variant, input, self, csv_file, log_file>>

NextPrices == RfmCheckPrice \/ ShopCheckPrice

SpecPrices == InitPrices /\ [][NextPrices]_vars

-----------------------------------------------------------------------------
(* A run of the constructor and of validate_all as one function of the      *)
(* input, for the comparison of two runs on the same input.                 *)

\* the calls of the k-th phase of validate_all (start_phase included)
validate_all(v, sf, k) ==
    CASE v = "end_news" ->
           CASE k = 1 -> <<Header("phase: end news window")>> \o validate_end_news(sf)
             [] k = 2 -> <<Header("phase: double points window")>> \o validate_double_points(sf)
             [] OTHER -> <<Header("phase: exchange rate")>>
                         \o validate_items_to_cash_exchange(sf)
      [] v = "lottery" ->
           CASE k = 1 -> <<Header("phase: actions presence")>> \o validate_actions_presence(sf)
             [] k = 2 -> <<Header("phase: actions content")>> \o validate_actions_content(sf)
             [] OTHER -> <<Header("phase: needAction")>> \o validate_need_action_lottery(sf)
      [] v = "main" ->
           CASE k = 1 -> <<Header("phase 1: action presence")>>
                         \o validate_action_ids_in_promo(sf)
             [] k = 2 -> validate_action_ids_in_actions(sf)
             [] k = 3 -> <<Header("phase 2: action content")>> \o validate_action_content(sf)
             [] OTHER -> <<Header("phase 3: needAction")>> \o validate_need_action(sf)
      [] v = "quests" ->
           CASE k = 1 -> <<Header("phase 1: exercise presence")>>
                         \o validate_complexity_in_actions(sf)
             [] k = 2 -> validate_complexity_in_promo(sf)
             [] k = 3 -> <<Header("phase 2: exercise configuration")>>
                         \o validate_complexity_config(sf)
             [] OTHER -> <<Header("phase 3: award configuration")>>
                         \o validate_quest_awards(sf)
      [] v = "rfm" ->
           CASE k = 1 -> validate_action_ids_in_actions_rfm(sf)
             [] k = 2 -> validate_action_rewards_and_resources(sf)
             [] OTHER -> validate_rfm_files(sf)
      [] OTHER ->
           CASE k = 1 -> validate_action_ids_in_actions_shop(sf)
             [] k = 2 -> validate_action_rewards(sf)
             [] k = 3 -> validate_action_ids_in_promo_shop(sf)
             [] OTHER -> validate_action_offer_links(sf)

\* the number of phases of validate_all
PhaseCount(v) == IF v \in {"end_news", "lottery", "rfm"} THEN 3 ELSE 4

\* the validators __init__ can build from the input: one, except for the
\* iteration order of the promo awards set of main-reward-lines
Constructed(v, inp) ==
    CASE v = "end_news" -> {EndNews_init(inp)}
      [] v = "lottery"  -> {Lottery_init(inp)}
      [] v = "main"     -> {Main_init(inp, promo_order) :
                               promo_order \in SetOrders(Get(Load(inp.promo), "awards", <<>>))}
      [] v = "quests"   -> {Quests_init(inp)}
      [] v = "rfm"      -> {Rfm_init(inp)}
      [] OTHER          -> {Shop_init(inp)}

\* the phases from the k-th on, up to the first exception
RECURSIVE RunPhases(_, _, _, _)
RunPhases(v, sf, Lg, k) ==
    IF k > PhaseCount(v) THEN [lg |-> Lg, raised |-> "none"]
    ELSE LET r == RunCalls(Lg, v, validate_all(v, sf, k))
         IN  IF r.raised # "none" THEN r ELSE RunPhases(v, sf, r.lg, k + 1)

\* the ledgers a fresh validator can hold when validate_all reaches
\* print_summary or is left by an exception
Runs(v, inp) ==
    {LET r == RunCalls(NewLedger, v, c.calls)
     IN  IF r.raised # "none" THEN r ELSE RunPhases(v, c.self, r.lg, 1) :
        c \in Constructed(v, inp)}

-----------------------------------------------------------------------------
(* Views of the ledger used by the properties *)

\* all entries of the per-subject map, flattened in map order
MapEntries(m) == Concat([i \in 1..Len(m) |-> m[i][2]])

\* the entries of the per-subject map under key k
EntriesOf(m, k) == IF DictHas(m, k) THEN DictGet(m, k) ELSE <<>>

CountIn(q, P(_)) == Cardinality({i \in 1..Len(q) : P(q[i])})

IsNoteEntry(e) == e.check \in {"warning", "error", "Warning", "Error"}

IsWarningEntry(e) == e.check \in {"warning", "Warning"}

IsErrorEntry(e) == e.check \in {"error", "Error"}

IsCheckEntry(e) == ~IsNoteEntry(e)

IsCheckLine(l) == l.kind \in {"CHECK:OK", "CHECK:FAIL"}

\* the check results recorded so far, in call order
CheckLines == SelectSeq(info_logs, IsCheckLine)

-----------------------------------------------------------------------------
(* C1: in every validator, after any sequence of log_check, log_warning and *)
(* log_error calls on a fresh validator, total_checks = passed_checks +     *)
(* failed_checks; warnings do not change the relation.                      *)
C1_TotalIsPassedPlusFailed ==
    stats.total_checks = stats.passed_checks + stats.failed_checks

C1_Witness ==
    /\ pc = "ledger"
    /\ stats.passed_checks >= 1
    /\ stats.failed_checks >= 1
    /\ stats.warning_checks >= 1

\* validate_all has returned or the run has ended
Validated == pc \in {"print_summary", "save_report_to_csv", "save_detailed_log", "exit", "done"}

IsHeaderLine(l) == l.kind = "HEADER"

\* the run ended by an exception raised in __init__: no phase was started
ConstructFailed == raised # "none" /\ CountIn(info_logs, IsHeaderLine) <= 1

\* the files of the run, in load order
InputFiles ==
    CASE variant = "end_news" -> <<input.end_news_promo, input.double_points_promo,
                                   input.promo, input.requirements>>
      [] variant = "rfm"      -> <<input.requirements, input.actions>>
                                 \o [i \in 1..Len(input.rfm_files) |-> input.rfm_files[i][2]]
      [] variant = "shop"     -> <<input.promo, input.requirements, input.actions,
                                   input.offers>>
      [] OTHER                -> <<input.promo, input.requirements, input.actions>>

LoadFailed == \E i \in 1..Len(InputFiles) : ~InputFiles[i].ok

IsLoadErrorLine(l) == l.kind = "ERROR" /\ StartsWith(l.msg, "load error")

(* C2: when an input document fails to load, the loader does not raise: it  *)
(* logs an error and substitutes an empty record set, and the run goes      *)
(* through every phase to the end of print_summary without raising, in      *)
(* every validator, also when no check was made.                            *)
C2_LoadFailureRunsToEnd ==
    (LoadFailed /\ pc # "init") =>
        /\ CountIn(info_logs, IsLoadErrorLine)
              = Cardinality({i \in 1..Len(InputFiles) : ~InputFiles[i].ok})
        /\ raised = "none"

\* the action ids of the requirements (main-reward-lines, lottery-rewards)
C3_Subjects ==
    IF variant = "main"
    THEN SeqToSet(DictKeys(self.free_actions)) \cup SeqToSet(DictKeys(self.paid_actions))
    ELSE {S(k) : k \in SeqToSet(DictKeys(self.requirements_by_action_id))}

C3_InCatalog(s) ==
    IF variant = "main" THEN DictHas(self.actions_by_id, s)
    ELSE DictHas(self.actions_by_id, s.v)

C3_CatalogNames(s) ==
    IF variant = "main" THEN {"action_free in actions file", "action_paid in actions file"}
    ELSE {"Ekshen " \o s.v \o " present in actions config"}

C3_PromoNames(s) ==
    IF variant = "main"
    THEN {"action_free in promo", "action_paid in promo", "promo award in requirements"}
    ELSE {"Ekshen " \o s.v \o " present in promo (awards)"}

\* the number of catalog-presence checks of the id: one per requirements
\* index that holds it
C3_CatalogChecks(s) ==
    IF variant = "main"
    THEN (IF DictHas(self.free_actions, s) THEN 1 ELSE 0)
         + (IF DictHas(self.paid_actions, s) THEN 1 ELSE 0)
    ELSE 1

\* a check result about the id
C3_LineOf(l, s) ==
    IF variant = "main" THEN l.subject = s
    ELSE \/ l.check \in C3_CatalogNames(s) \cup C3_PromoNames(s)
         \/ EndsWith(l.check, " v ekshene " \o s.v)
         \/ EndsWith(l.check, ", action " \o s.v)

\* one failed catalog-presence result, and no content or needAction result
C3_PresenceFailsAndChecksAreSkipped(s) ==
    LET entries == EntriesOf(error_map, s)
    IN  /\ Cardinality({j \in 1..Len(entries) : entries[j].check \in C3_CatalogNames(s)})
              = C3_CatalogChecks(s)
        /\ \A k \in 1..Len(CheckLines) :
              C3_LineOf(CheckLines[k], s) =>
                  CheckLines[k].check \in C3_CatalogNames(s) \cup C3_PromoNames(s)

(* C3: a requirement row whose action id is missing from the catalog gets   *)
(* exactly one failed catalog-presence check; its content, award and        *)
(* needAction checks are skipped: no further check result, and the skip is  *)
(* not recorded as a failure or error entry for that id.                    *)
C3_MissingActionIsSkippedSilently ==
    (variant \in {"main", "lottery"} /\ Validated /\ raised = "none") =>
        \A s \in C3_Subjects :
            ~C3_InCatalog(s) =>
                /\ C3_PresenceFailsAndChecksAreSkipped(s)
                /\ \A j \in 1..Len(EntriesOf(error_map, s)) :
                      IsCheckEntry(EntriesOf(error_map, s)[j])

\* the part of C3 the code keeps: the presence failure and the skipped checks
C3_PresenceAndSkipHold ==
    (variant \in {"main", "lottery"} /\ Validated /\ raised = "none") =>
        \A s \in C3_Subjects : ~C3_InCatalog(s) => C3_PresenceFailsAndChecksAreSkipped(s)

\* the presence check of a nested entry and the value check that depends on it
C4_Pairs ==
    {<<"needResources 17886 present", "needResources count">>,
     <<"award itemId 17909 present in quest", "award itemId 17909 count matches">>,
     <<"award itemId 17908 present in quest", "award itemId 17908 count matches">>,
     <<"techitem id in hasItems", "techitem count in hasItems">>}
    \cup {<<"award " \o t \o " present", "award " \o t \o " count">> :
             t \in {"item", "cash", "season_currency", "buff"}}

\* how many times the phase looks at the subject
C4_Evaluations(s) ==
    CASE variant = "main" ->
            (IF DictHas(self.free_actions, s) THEN 1 ELSE 0)
            + (IF DictHas(self.paid_actions, s) THEN 1 ELSE 0)
      [] variant = "quests" ->
            Cardinality({k \in 1..Len(self.all_complexity_ids) :
                            self.all_complexity_ids[k] = s})
      [] variant = "rfm" -> IF DictHas(self.requirements_by_offer, s.v) THEN 1 ELSE 0
      [] OTHER -> 0

(* C4: presence-then-value checks.  The presence of the nested entry (an    *)
(* award, the needResources item, a custom award of the quest, the techitem *)
(* of hasItems) is one check result of its own; when the entry is absent    *)
(* exactly one failed presence result is recorded and no value or count     *)
(* result: a value result exists only right after the passed presence       *)
(* result of the same subject, and a subject has at most one presence       *)
(* result per evaluation, each failure recorded once in the error map.       *)
C4_PresenceThenValue ==
    \A pair \in C4_Pairs :
        \A k \in 1..Len(CheckLines) :
            LET l == CheckLines[k]
                same(m) == m.subject = l.subject /\ m.check = l.check
                failed(m) == same(m) /\ m.kind = "CHECK:FAIL"
                recorded(e) == e.check = pair[1]
            IN  /\ (l.check = pair[1] /\ l.kind = "CHECK:FAIL") =>
                      /\ ~(/\ k < Len(CheckLines)
                           /\ CheckLines[k + 1].check = pair[2]
                           /\ CheckLines[k + 1].subject = l.subject)
                      /\ CountIn(CheckLines, failed)
                            = CountIn(EntriesOf(error_map, l.subject), recorded)
                /\ l.check = pair[1] => CountIn(CheckLines, same) <= C4_Evaluations(l.subject)
                /\ l.check = pair[2] =>
                      /\ k > 1
                      /\ CheckLines[k - 1].check = pair[1]
                      /\ CheckLines[k - 1].subject = l.subject
                      /\ CheckLines[k - 1].kind = "CHECK:OK"

C4_Witness ==
    /\ variant = "main"
    /\ pc = "print_summary"
    /\ \E k \in 1..Len(CheckLines) :
          CheckLines[k].check = "award cash present" /\ CheckLines[k].kind = "CHECK:FAIL"
    /\ \E k \in 1..Len(CheckLines) :
          /\ CheckLines[k].check = "needResources 17886 present"
          /\ CheckLines[k].kind = "CHECK:FAIL"
    /\ \E k \in 1..Len(CheckLines) : CheckLines[k].check = "award item count"

\* an error a validation phase logs (not a load or save failure)
IsPhaseErrorLine(l) ==
    /\ l.kind = "ERROR"
    /\ ~StartsWith(l.msg, "load error")
    /\ l.msg \notin {"report save error", "log save error"}

(* C5: in end-news every discrepancy, that is every failed log_check and    *)
(* every log_error of a validation phase, appears as a row of the CSV       *)
(* report.                                                                  *)
C5_EveryDiscrepancyHasCsvRow ==
    (variant = "end_news" /\ csv_file.written) =>
        Len(csv_file.rows) >= stats.failed_checks + CountIn(info_logs, IsPhaseErrorLine)

\* the part of C5 the code keeps: every failed check has its row
C5_FailedChecksHaveCsvRows ==
    (variant = "end_news" /\ csv_file.written) => Len(csv_file.rows) = stats.failed_checks

(* C6: every failed check result and every recorded warning has an entry in *)
(* the per-subject error map.                                               *)
C6_MapHoldsFailuresAndWarnings ==
    /\ CountIn(MapEntries(error_map), IsCheckEntry) = stats.failed_checks
    /\ CountIn(MapEntries(error_map), IsWarningEntry) = stats.warning_checks

(* C7: the lottery validator exits with a non-zero status if and only if    *)
(* failed_checks > 0; with no failed check the exit status is 0.            *)
C7_ExitStatusIsFailedChecks ==
    (variant = "lottery" /\ pc = "done") =>
        (exit_status # I(0) <=> stats.failed_checks > 0)

\* the input of C8: the only requirements row is 'double points(2)' with
\* from F and to T and no turn-on date, the double points promo runs from F
\* to T, and promotionAwardMultiplier of promo.json is "2"
C8_Input ==
    /\ variant = "end_news"
    /\ input.requirements.ok
    /\ Len(input.requirements.data) = 1
    /\ input.requirements.data[1]["alias"] = "double points(2)"
    /\ Get(input.requirements.data[1], "MultiplierTurnOn", "") = ""
    /\ input.double_points_promo.ok
    /\ Get(input.double_points_promo.data, "from", None) = S(input.requirements.data[1]["from"])
    /\ Get(input.double_points_promo.data, "to", None) = S(input.requirements.data[1]["to"])
    /\ input.promo.ok
    /\ Get(Get(input.promo.data, "parameters", <<>>), "promotionAwardMultiplier", None) = S("2")

(* C8: end-news on the single row {alias 'double points(2)', from F, to T}  *)
(* with the double points promo from F to T and promotionAwardMultiplier    *)
(* "2": exactly three check results (from, to, multiplier value), all       *)
(* passed, and failed_checks = 0.                                           *)
C8_DoublePointsThreePassingChecks ==
    (C8_Input /\ Validated) =>
        /\ raised = "none"
        /\ stats.total_checks = 3
        /\ stats.passed_checks = 3
        /\ stats.failed_checks = 0
        /\ [k \in 1..Len(CheckLines) |-> <<CheckLines[k].kind, CheckLines[k].check>>]
              = << <<"CHECK:OK", "double points from">>, <<"CHECK:OK", "double points to">>,
                   <<"CHECK:OK", "multiplier value">> >>

C8_Witness == C8_Input /\ pc = "print_summary" /\ stats.total_checks = 3

\* the numeric id columns of the requirements table
C9_IdColumns ==
    CASE variant = "shop"   -> {"Action"}
      [] variant = "main"   -> {"action_free", "action_paid"}
      [] variant = "quests" -> {"complexity"}
      [] OTHER              -> {}

\* the requirements cells of the id columns that hold a non-numeric value
C9_BadCells ==
    {<<i, c>> \in (1..Len(Load(input.requirements))) \X C9_IdColumns :
        /\ Get(Load(input.requirements)[i], c, "") # ""
        /\ ~IntOfStr(Get(Load(input.requirements)[i], c, "")).ok}

C9_Index(c) ==
    CASE c = "Action"      -> self.requirements_by_action_id
      [] c = "action_free" -> self.free_actions
      [] c = "action_paid" -> self.paid_actions
      [] OTHER             -> self.complexity_details

\* every '@id' of the catalog is empty or an integer
C9_CatalogIsWellFormed ==
    LET actions == IF variant = "quests" THEN QuestsFlatten(Load(input.actions))
                   ELSE Load(input.actions)
    IN  \A i \in 1..Len(actions) :
            ~Truthy(Get(actions[i], "id_at", None)) \/ IntOf(Get(actions[i], "id_at", None)).ok

(* C9: a non-numeric value in a numeric id column of the requirements       *)
(* (Action, action_free, action_paid, complexity) excludes the row from the *)
(* index and logs a warning; nothing is raised and the other rows are       *)
(* indexed.                                                                 *)
C9_NonNumericIdIsSkipped ==
    (C9_BadCells # {} /\ C9_CatalogIsWellFormed /\ pc # "init") =>
        /\ ~ConstructFailed
        /\ stats.warning_checks >= 1
        /\ \A i \in 1..Len(Load(input.requirements)), c \in C9_IdColumns :
              LET cell == Get(Load(input.requirements)[i], c, "")
              IN  (cell # "" /\ IntOfStr(cell).ok) => DictHas(C9_Index(c), I(IntOfStr(cell).v))

\* the part of C9 the code keeps: shop-offers skips the row with a warning
C9_ShopSkipsNonNumericAction ==
    (variant = "shop" /\ C9_BadCells # {} /\ C9_CatalogIsWellFormed /\ pc # "init") =>
        /\ ~ConstructFailed
        /\ stats.warning_checks >= Cardinality(C9_BadCells)
        /\ \A i \in 1..Len(Load(input.requirements)) :
              LET cell == Get(Load(input.requirements)[i], "Action", "")
              IN  (cell # "" /\ IntOfStr(cell).ok) =>
                      DictHas(self.requirements_by_action_id, I(IntOfStr(cell).v))

\* the '@id' values of the catalog that parse as integers
C10_ParsedIds ==
    {I(IntOf(Load(input.actions)[i]["id_at"]).v) :
        i \in {k \in 1..Len(Load(input.actions)) :
                  /\ "id_at" \in DOMAIN Load(input.actions)[k]
                  /\ IntOf(Load(input.actions)[k]["id_at"]).ok}}

(* C10: in rfm-offers and shop-offers the key set of actions_by_id is       *)
(* exactly the set of parsed '@id' values of the catalog, id 0 included; an *)
(* entry with a malformed or missing id contributes no key.                 *)
C10_CatalogKeysAreParsedIds ==
    (variant \in {"rfm", "shop"} /\ pc # "init") =>
        /\ ~ConstructFailed
        /\ SeqToSet(DictKeys(self.actions_by_id)) = C10_ParsedIds


\* the last record of the document that carries the key
C11_Last(doc, Key(_), k) ==
    doc[CHOOSE i \in 1..Len(doc) :
            /\ Key(doc[i]) = [ok |-> TRUE, k |-> k]
            /\ \A j \in (i + 1)..Len(doc) : Key(doc[j]) # [ok |-> TRUE, k |-> k]]

\* the index has one entry per key of the document, and it is the last record
\* of that key
C11_IndexIsLastWrite(doc, Key(_), index) ==
    /\ \A i, j \in 1..Len(index) : i # j => index[i][1] # index[j][1]
    /\ \A i \in 1..Len(doc) : Key(doc[i]).ok => DictHas(index, Key(doc[i]).k)
    /\ \A i \in 1..Len(index) :
          /\ \E j \in 1..Len(doc) : Key(doc[j]) = [ok |-> TRUE, k |-> index[i][1]]
          /\ index[i][2] = C11_Last(doc, Key, index[i][1])

C11_StrKey(rec, col) ==
    IF col \in DOMAIN rec /\ rec[col] # "" THEN [ok |-> TRUE, k |-> rec[col]]
    ELSE [ok |-> FALSE, k |-> ""]

C11_IntKey(rec, col) ==
    IF col \in DOMAIN rec /\ rec[col] # "" /\ IntOfStr(rec[col]).ok
    THEN [ok |-> TRUE, k |-> I(IntOfStr(rec[col]).v)]
    ELSE [ok |-> FALSE, k |-> None]

C11_Alias(rec) == C11_StrKey(rec, "alias")

C11_Offer(rec) == C11_StrKey(rec, "offer")

C11_Complexity(rec) == C11_IntKey(rec, "complexity")

\* the key of a catalog record: its '@id' when the catalog index takes it
C11_ActionId(rec) ==
    IF Truthy(Get(rec, "id_at", None)) /\ IntOf(Get(rec, "id_at", None)).ok
    THEN [ok |-> TRUE, k |-> I(IntOf(rec["id_at"]).v)]
    ELSE [ok |-> FALSE, k |-> None]

\* two records of the document share a key and differ
C11_HasDuplicate(doc, Key(_)) ==
    \E i, j \in 1..Len(doc) : i < j /\ Key(doc[i]).ok /\ Key(doc[i]) = Key(doc[j])
                              /\ doc[i] # doc[j]

\* the check results of the subject under the name, as <<expected, actual>>
C11_Extras(subject, name) ==
    LET hit(l) == l.subject = subject /\ l.check = name
        lines == SelectSeq(CheckLines, hit)
    IN  [k \in 1..Len(lines) |-> lines[k].extra]

(* C11: flat indices are last-write-wins.  When two records of a document   *)
(* share a key (alias, offer name, action id, complexity), the index has    *)
(* one entry for the key, it is the later record, and the checks of the key *)
(* take their expected (requirements) or actual (catalog) values from the   *)
(* later record only.                                                       *)
C11_LastWriteWins ==
    (pc # "init" /\ raised = "none") =>
        /\ variant = "end_news" =>
              /\ C11_IndexIsLastWrite(self.requirements, C11_Alias, self.requirements_by_alias)
              /\ \A c \in {"from", "to"} : \A k \in 1..Len(C11_Extras(None, "double points " \o c)) :
                    C11_Extras(None, "double points " \o c)[k][1]
                       = S(C11_Last(self.requirements, C11_Alias, "double points(2)")[c])
              /\ \A c \in {"from", "to"} : Len(C11_Extras(None, "double points " \o c)) <= 1
        /\ variant = "rfm" =>
              /\ C11_IndexIsLastWrite(self.requirements, C11_Offer, self.requirements_by_offer)
              /\ C11_IndexIsLastWrite(self.actions, C11_ActionId, self.actions_by_id)
              /\ \A i \in 1..Len(self.requirements_by_offer) :
                    LET offer == self.requirements_by_offer[i][1]
                        last == C11_Last(self.requirements, C11_Offer, offer)
                        dates == C11_Extras(S(offer), "start date")
                        points == C11_Extras(S(offer), "points in action award")
                        action == C11_Last(self.actions, C11_ActionId, I(IntOfStr(last["action"]).v))
                    IN  /\ Len(dates) <= 1 /\ Len(points) <= 1
                        /\ \A k \in 1..Len(dates) :
                              dates[k][1] = S(_normalize_date_format(last["start"]))
                        /\ \A k \in 1..Len(points) :
                              /\ points[k][1] = I(IntOfStr(last["award"]).v)
                              /\ points[k][2] \in
                                    {S("not found")} \cup
                                    {action["awards"][a]["count"] : a \in 1..Len(action["awards"])}
        /\ variant = "quests" =>
              /\ C11_IndexIsLastWrite(self.requirements, C11_Complexity, self.complexity_details)
              /\ C11_IndexIsLastWrite(QuestsFlatten(self.actions), C11_ActionId,
                                      self.actions_by_id)
              /\ \A i \in 1..Len(self.complexity_details) :
                    LET id == self.complexity_details[i][1]
                        last == C11_Last(self.requirements, C11_Complexity, id)
                        aliases == C11_Extras(id, "exercise alias matches")
                    IN  \A k \in 1..Len(aliases) : aliases[k][1] = S(last["alias"])

C11_Witness ==
    /\ variant = "rfm"
    /\ Validated /\ raised = "none"
    /\ C11_HasDuplicate(self.requirements, C11_Offer)
    /\ C11_HasDuplicate(self.actions, C11_ActionId)
    /\ Len(C11_Extras(S("rfm1"), "points in action award")) = 1
    /\ Len(C11_Extras(S("rfm1"), "start date")) = 1


\* s is 'YYYY-MM-DD H:MM:SS' with an hour of h digits and nothing after it
C12_IsDateTime(s, h) ==
    /\ Len(s) = 17 + h
    /\ \A i \in {1, 2, 3, 4, 6, 7, 9, 10} \cup (12..(11 + h))
                \cup {13 + h, 14 + h, 16 + h, 17 + h} : IsDigitChar(CharAt(s, i))
    /\ CharAt(s, 5) = "-" /\ CharAt(s, 8) = "-" /\ CharAt(s, 11) = " "
    /\ CharAt(s, 12 + h) = ":" /\ CharAt(s, 15 + h) = ":"

\* the zero-padded form of a date string with a single-digit hour
C12_Padded(s) == SubSeq(s, 1, 11) \o "0" \o SubSeq(s, 12, Len(s))

(* C12: _normalize_date_format is idempotent, normalize(normalize(s)) =     *)
(* normalize(s) for every s; a date string with a single-digit hour has the *)
(* same result as its zero-padded form; an already padded string is         *)
(* returned unchanged.                                                      *)
C12_NormalizeIsIdempotentAndPads ==
    (pc = "normalize" /\ Len(self) >= 1) =>
        /\ \A k \in 2..Len(self) : self[k] = self[1]
        /\ C12_IsDateTime(input.date_str, 1) =>
              /\ self[1] = _normalize_date_format(C12_Padded(input.date_str))
              /\ self[1] = C12_Padded(input.date_str)
        /\ C12_IsDateTime(input.date_str, 2) => self[1] = input.date_str

C12_Witness ==
    /\ pc = "normalize"
    /\ Len(self) = 2
    /\ C12_IsDateTime(input.date_str, 1)
    /\ self[2] = C12_Padded(input.date_str)


\* how many entries of the list are x once the surrounding blanks are removed
C13_Count(list, x) == Cardinality({i \in 1..Len(list) : Strip(list[i]) = x})

\* the two lists hold the same entries, in any order and with any blanks
\* around them (empty entries are no entries)
C13_SameEntries(e, a) ==
    \A x \in {Strip(e[i]) : i \in 1..Len(e)} \cup {Strip(a[i]) : i \in 1..Len(a)} :
        x # "" => C13_Count(e, x) = C13_Count(a, x)

(* C13: the RFM segment check is order- and whitespace-insensitive.  When   *)
(* the isNotInOneOfRFM30Segments condition is present, SEGMENTS_CHECK       *)
(* passes if the two comma-separated lists hold the same entries in any     *)
(* order and with any surrounding blanks, and fails if the entries differ.  *)
C13_SegmentsCompareAsUnorderedEntries ==
    (pc = "done" /\ "expected" \in DOMAIN input /\ input.present) =>
        /\ raised = "none"
        /\ Len(CheckLines) = 1
        /\ CheckLines[1].check = "segments in settingsByConditions"
        /\ CheckLines[1].kind = "CHECK:OK" <=> C13_SameEntries(input.expected, input.actual)

C13_Witness ==
    /\ pc = "done"
    /\ "expected" \in DOMAIN input
    /\ input.present
    /\ input.expected = <<"b", "a">>
    /\ input.actual = <<" a ", "b">>
    /\ Len(CheckLines) = 1
    /\ CheckLines[1].kind = "CHECK:OK"


C14_IsPriceLine(l) ==
    /\ IsCheckLine(l)
    /\ l.check \in {"price in action needResources", "offer price by packet_id",
                    "offer price (direct)"}

\* the price check results of the run
C14_PriceLines == SelectSeq(info_logs, C14_IsPriceLine)

C15_Warned(subject, msgs) ==
    \E k \in 1..Len(info_logs) :
        /\ info_logs[k].kind = "WARNING"
        /\ info_logs[k].subject = subject
        /\ info_logs[k].msg \in msgs

C15_Checked(subject, names) ==
    \E k \in 1..Len(CheckLines) :
        CheckLines[k].subject = subject /\ CheckLines[k].check \in names

\* end-news: the itemsToCashExchange row that is used has no '(n)' in its alias
C15_ExchangeRateMissing ==
    /\ variant = "end_news"
    /\ ~DictHas(self.requirements_by_alias, "itemsToCashExchange(15)")
    /\ DictHas(self.requirements_by_alias, "itemsToCashExchange")

\* rfm-offers: the offer has a configuration and its row has a techitem(...)
\* column with a value and no digits between the parentheses
C15_TechitemIdMissing(offer) ==
    LET req == DictGet(self.requirements_by_offer, offer)
    IN  /\ DictHas(self.rfm_configs, offer)
        /\ \E c \in DOMAIN req :
              /\ StartsWith(c, "techitem(") /\ EndsWith(c, ")")
              /\ ~IsDigitStr(SubSeq(c, 10, Len(c) - 1))
              /\ req[c] # ""

\* shop-offers: the action is in the catalog and its row has a value in the
\* award column that has no '(id)'
C15_AwardIdMissing(action_id) ==
    /\ DictHas(self.actions_by_id, action_id)
    /\ DictGet(self.requirements_by_action_id, action_id)["Award_bad"] # ""

\* the dependent check produced no result
C15_DependentChecksSkipped ==
    /\ C15_ExchangeRateMissing => ~C15_Checked(None, {"exchange rate"})
    /\ variant = "rfm" =>
          \A i \in 1..Len(self.requirements_by_offer) :
              C15_TechitemIdMissing(self.requirements_by_offer[i][1]) =>
                  ~C15_Checked(S(self.requirements_by_offer[i][1]),
                               {"techitem id in hasItems", "techitem count in hasItems"})
    /\ variant = "shop" =>
          \A i \in 1..Len(self.requirements_by_action_id) :
              LET id == self.requirements_by_action_id[i][1]
                  hit(l) == l.subject = id /\ l.check = "award in action"
                  req == self.requirements_by_action_id[i][2]
              IN  C15_AwardIdMissing(id) =>
                     /\ CountIn(CheckLines, hit) <= 1
                     /\ \A k \in 1..Len(CheckLines) :
                           hit(CheckLines[k]) =>
                              /\ IntOfStr(req["Award_points(17909)"]).ok
                              /\ CheckLines[k].extra[1] = I(IntOfStr(req["Award_points(17909)"]).v)

\* a warning was recorded for the failed extraction
C15_WarningRecorded ==
    /\ C15_ExchangeRateMissing =>
          C15_Warned(None, {"no exchange rate in alias for itemsToCashExchange"})
    /\ variant = "rfm" =>
          \A i \in 1..Len(self.requirements_by_offer) :
              C15_TechitemIdMissing(self.requirements_by_offer[i][1]) =>
                  /\ stats.warning_checks >= 1
                  /\ \E k \in 1..Len(info_logs) :
                        /\ info_logs[k].kind = "WARNING"
                        /\ info_logs[k].subject = S(self.requirements_by_offer[i][1])
    /\ variant = "shop" =>
          \A i \in 1..Len(self.requirements_by_action_id) :
              C15_AwardIdMissing(self.requirements_by_action_id[i][1]) =>
                  C15_Warned(self.requirements_by_action_id[i][1], {"bad column format"})

(* C15: when the integer in parentheses cannot be extracted from an alias   *)
(* or a column name ('itemsToCashExchange' without '(n)', a 'techitem(..)'  *)
(* column without digits, an award column without '(id)'), the dependent    *)
(* check is skipped, no check result is produced for it, and a warning is   *)
(* recorded (warning_checks incremented).                                   *)
C15_FailedExtractionWarnsAndSkips ==
    (variant \in {"end_news", "rfm", "shop"} /\ Validated /\ raised = "none") =>
        /\ C15_DependentChecksSkipped
        /\ C15_WarningRecorded

\* the part of C15 the code keeps in the three validators: the check is skipped
C15_FailedExtractionSkips ==
    (variant \in {"end_news", "rfm", "shop"} /\ Validated /\ raised = "none") =>
        C15_DependentChecksSkipped

\* the part of C15 the code keeps in end-news and shop-offers: the warning
C15_EndNewsAndShopWarn ==
    (variant \in {"end_news", "shop"} /\ Validated /\ raised = "none") => C15_WarningRecorded


\* main-reward-lines: the free action is in the catalog and its row has a
\* needResources or an award quantity that is not an integer
C16_MainUnparsable(action_id) ==
    LET requirement == DictGet(self.free_actions, action_id)
        bad(t, i, q) == /\ requirement[t] # "" /\ requirement[i] # "" /\ requirement[q] # ""
                        /\ ~IntOfStr(requirement[q]).ok
    IN  /\ DictHas(self.actions_by_id, action_id)
        /\ \/ /\ requirement.needResources_17886 # ""
              /\ ~IntOfStr(requirement.needResources_17886).ok
           \/ bad("award_1_type", "award_1_id", "award_1_qty")
           \/ bad("award_2_type", "award_2_id", "award_2_qty")

\* rfm-offers: the action of the offer is in the catalog and the award or the
\* price of its row is not a number
C16_RfmUnparsable(offer) ==
    LET req == DictGet(self.requirements_by_offer, offer)
    IN  /\ RfmActionId(req).ok
        /\ DictHas(self.actions_by_id, I(RfmActionId(req).v))
        /\ ~IntOfStr(req.award).ok \/ ~FloatOfStr(req.price).ok

C16_LevelColumns == {"minLevel", "maxLevel", "minValue"}

C16_LevelCheck(col) ==
    CASE col = "minLevel" -> "min level matches"
      [] col = "maxLevel" -> "max level matches"
      [] OTHER            -> "min value matches"

\* quests-weekly: the exercise has a configuration that carries the column and
\* the requirements value of the column is not a number
C16_QuestsUnparsable(complexity_id, col) ==
    LET children == Get(DictGet(self.actions_by_id, complexity_id), "children", <<>>)
        req_details == DictGet(self.complexity_details, complexity_id)
    IN  /\ DictHas(self.actions_by_id, complexity_id)
        /\ DictHas(self.complexity_details, complexity_id)
        /\ children # <<>>
        /\ ~IsNone(Get(children[1], col, None))
        /\ req_details[col] # "" /\ ~IsDigitStr(req_details[col])

C16_WarnedFor(subject) ==
    \E k \in 1..Len(info_logs) :
        info_logs[k].kind = "WARNING" /\ info_logs[k].subject = subject

\* the content phase of the validator is over
C16_ContentDone ==
    /\ ~ConstructFailed
    /\ \/ variant = "main" /\ pc \in {"validate_need_action", "print_summary", "done"}
       \/ variant = "rfm" /\ pc \in {"validate_rfm_files", "print_summary", "done"}
       \/ variant = "quests" /\ pc \in {"validate_quest_awards", "print_summary", "done"}

(* C16: when a requirements value that is compared as a number cannot be    *)
(* parsed (award_1_qty, needResources, award, price, minLevel, ...), the    *)
(* validator records a warning, skips that check without a check result and *)
(* goes on with the remaining checks: it never raises.                      *)
C16_UnparsableValueWarnsAndContinues ==
    C16_ContentDone =>
        /\ variant = "main" =>
              \A i \in 1..Len(self.free_actions) :
                  C16_MainUnparsable(self.free_actions[i][1]) =>
                      /\ raised # "ValueError"
                      /\ C16_WarnedFor(self.free_actions[i][1])
        /\ variant = "rfm" =>
              \A i \in 1..Len(self.requirements_by_offer) :
                  C16_RfmUnparsable(self.requirements_by_offer[i][1]) =>
                      /\ raised # "ValueError"
                      /\ C16_WarnedFor(S(self.requirements_by_offer[i][1]))
        /\ variant = "quests" =>
              \A i \in 1..Len(self.complexity_details) : \A col \in C16_LevelColumns :
                  C16_QuestsUnparsable(self.complexity_details[i][1], col) =>
                      /\ raised # "ValueError"
                      /\ C16_WarnedFor(self.complexity_details[i][1])
                      /\ ~C15_Checked(self.complexity_details[i][1], {C16_LevelCheck(col)})

\* the part of C16 the code keeps in quests-weekly: the check is skipped and
\* the run goes on
C16_QuestsSkipsUnparsableLevel ==
    (C16_ContentDone /\ variant = "quests") =>
        \A i \in 1..Len(self.complexity_details) : \A col \in C16_LevelColumns :
            C16_QuestsUnparsable(self.complexity_details[i][1], col) =>
                /\ raised # "ValueError"
                /\ ~C15_Checked(self.complexity_details[i][1], {C16_LevelCheck(col)})


\* the phases of validate_all in the order of its statements, print_summary last
C17_Order(v) ==
    CASE v = "end_news" -> <<"validate_end_news", "validate_double_points",
                             "validate_items_to_cash_exchange", "print_summary">>
      [] v = "lottery"  -> <<"validate_actions_presence", "validate_actions_content",
                             "validate_need_action", "print_summary">>
      [] v = "main"     -> <<"validate_action_ids_in_promo", "validate_action_ids_in_actions",
                             "validate_action_content", "validate_need_action",
                             "print_summary">>
      [] v = "quests"   -> <<"validate_complexity_in_actions", "validate_complexity_in_promo",
                             "validate_complexity_config", "validate_quest_awards",
                             "print_summary">>
      [] v = "rfm"      -> <<"validate_action_ids_in_actions",
                             "validate_action_rewards_and_resources",
                             "validate_rfm_files", "print_summary">>
      [] OTHER          -> <<"validate_action_ids_in_actions", "validate_action_rewards",
                             "validate_action_ids_in_promo", "validate_action_offer_links",
                             "print_summary">>

\* the headers the phases of validate_all print, in the order of its statements
C17_Headers(v) ==
    CASE v = "end_news" -> <<"phase: end news window", "phase: double points window",
                             "phase: exchange rate">>
      [] v = "lottery"  -> <<"phase: actions presence", "phase: actions content",
                             "phase: needAction">>
      [] v = "main"     -> <<"phase 1: action presence", "phase 2: action content",
                             "phase 3: needAction">>
      [] v = "quests"   -> <<"phase 1: exercise presence", "phase 2: exercise configuration",
                             "phase 3: award configuration">>
      [] v = "rfm"      -> <<"phase: action ids in actions.json",
                             "phase: rewards and resources in actions",
                             "phase: rfm files against requirements">>
      [] OTHER          -> <<"phase: action ids in actions.json", "phase: rewards in actions",
                             "phase: action ids in promo.json parameters",
                             "phase: action and offer links">>

C17_IsPhaseHeader(l) ==
    l.kind = "HEADER" /\ \E k \in 1..Len(C17_Headers(variant)) : l.msg = C17_Headers(variant)[k]

C17_PhaseHeaders ==
    LET lines == SelectSeq(info_logs, C17_IsPhaseHeader)
    IN  [k \in 1..Len(lines) |-> lines[k].msg]

\* a phase that returns hands over to the next statement of validate_all,
\* whatever the ledger holds
C17_PhaseHandsOver ==
    \A k \in 1..(Len(C17_Order(variant)) - 1) :
        (pc = C17_Order(variant)[k] /\ pc' # pc /\ raised' = "none") =>
            pc' = C17_Order(variant)[k + 1]

\* when print_summary is entered every phase has been entered once, in order
C17_AllPhasesEnteredOnce ==
    pc = "print_summary" => C17_PhaseHeaders = C17_Headers(variant)

C18_HeaderAt(header) ==
    {h \in 1..Len(info_logs) : info_logs[h].kind = "HEADER" /\ info_logs[h].msg = header}

\* the check results logged by the phase that printed the header
C18_PhaseChecks(header) ==
    LET h == CHOOSE a \in C18_HeaderAt(header) : TRUE
        later == {k \in (h + 1)..Len(info_logs) : info_logs[k].kind = "HEADER"}
        last == IF later = {} THEN Len(info_logs)
                ELSE (CHOOSE a \in later : \A b \in later : a <= b) - 1
    IN  SelectSeq(SubSeq(info_logs, h + 1, last), IsCheckLine)

\* the phases of end-news whose requirements row is missing from the index
C18_EndNewsMisses ==
    {header \in {"phase: end news window", "phase: double points window",
                 "phase: exchange rate"} :
        /\ variant = "end_news"
        /\ C18_HeaderAt(header) # {}
        /\ CASE header = "phase: end news window" ->
                    ~DictHas(self.requirements_by_alias, "end news")
             [] header = "phase: double points window" ->
                    ~DictHas(self.requirements_by_alias, "double points(2)")
             [] OTHER ->
                    \A i \in 1..Len(self.requirements_by_alias) :
                        ~Contains(self.requirements_by_alias[i][1], "itemsToCashExchange")}

\* the required offers of rfm-offers that have no configuration
C18_RfmMisses ==
    IF variant = "rfm" /\ raised = "none"
       /\ C18_HeaderAt("phase: rfm files against requirements") # {}
    THEN {offer \in {self.requirements_by_offer[i][1] :
                         i \in 1..Len(self.requirements_by_offer)} :
             ~DictHas(self.rfm_configs, offer)}
    ELSE {}

C18_For(lines, subject) == SelectSeq(lines, LAMBDA l : l.subject = subject)

C18_OneFailed(lines) == Len(lines) = 1 /\ lines[1].kind = "CHECK:FAIL"

(* C18: a lookup miss is reported as a failed presence check: when the      *)
(* requirements index has no row for 'end news', 'double points(2)' or      *)
(* 'itemsToCashExchange', or a required offer has no RFM configuration, one *)
(* failed check result is recorded (failed_checks incremented) and the      *)
(* dependent value checks are skipped.                                      *)
C18_LookupMissIsFailedCheck ==
    /\ \A header \in C18_EndNewsMisses :
          /\ C18_OneFailed(C18_PhaseChecks(header))
          /\ stats.failed_checks >= 1
    /\ \A offer \in C18_RfmMisses :
              /\ C18_OneFailed(C18_For(C18_PhaseChecks("phase: rfm files against requirements"),
                                       S(offer)))
              /\ stats.failed_checks >= 1

\* the part of C18 the code keeps: the dependent value checks are skipped
C18_LookupMissSkipsValueChecks ==
    /\ \A header \in C18_EndNewsMisses : C18_PhaseChecks(header) = <<>>
    /\ \A offer \in C18_RfmMisses :
              C18_For(C18_PhaseChecks("phase: rfm files against requirements"), S(offer)) = <<>>


C19_CheckLines(Lg) == SelectSeq(Lg.info_logs, IsCheckLine)

\* validate_all has reached print_summary in this run
C19_FirstRunDone == pc = "print_summary"

(* C19: running the same validation twice on unchanged inputs (two freshly  *)
(* constructed validators of one feature area) yields the same sequence of  *)
(* check results (subject, check, outcome, expected, actual) in the same    *)
(* order and the same summary counters, the order in which the ids of the   *)
(* promo awards collection are checked included.                            *)
C19_SecondRunIsIdentical ==
    C19_FirstRunDone =>
        \A second \in Runs(variant, input) :
            /\ second.raised = "none"
            /\ C19_CheckLines(second.lg) = CheckLines
            /\ second.lg.stats = stats

\* the part of C19 the code keeps: the summary counters of the two runs are
\* equal in every validator, and the check results are the same in the same
\* order in the validators that iterate no set
C19_SecondRunSameCounters ==
    C19_FirstRunDone =>
        \A second \in Runs(variant, input) :
            /\ second.raised = "none"
            /\ second.lg.stats = stats
            /\ variant # "main" => C19_CheckLines(second.lg) = CheckLines


C20_ReporterActs == pc \in {"save_report_to_csv", "save_detailed_log"}

\* the step of a reporter whose write failed: the file is left as it was
C20_WriteFailed ==
    \/ pc = "save_report_to_csv" /\ ~csv_file'.written
    \/ pc = "save_detailed_log" /\ ~log_file'.written

C20_ReporterLeavesLedger ==
    (C20_ReporterActs /\ pc' # pc) =>
        /\ stats' = stats
        /\ error_map' = error_map
        /\ raised' = "none"
        /\ exit_status' = exit_status
        /\ IF C20_WriteFailed
           THEN /\ Len(errors') = Len(errors) + 1
                /\ Len(info_logs') = Len(info_logs) + 1
                /\ info_logs'[Len(info_logs')].kind = "ERROR"
           ELSE errors' = errors

(* C20: the reporters never change the ledger: save_report_to_csv and       *)
(* save_detailed_log leave stats (total / passed / failed / warning         *)
(* counters) and the per-subject error map as they were, when the write     *)
(* succeeds and when it fails; a failed write only logs an error, so it     *)
(* cannot change the exit status that is derived from failed_checks.        *)
C20_ReportersNeverMutateLedger == [][C20_ReporterLeavesLedger]_vars

\* a run with failed checks and a filled error map has ended after the
\* write of the report failed and the write of the log succeeded
C20_Witness ==
    /\ pc = "done"
    /\ raised = "none"
    /\ stats.failed_checks >= 1
    /\ error_map # <<>>
    /\ ~csv_file.written
    /\ log_file.written
    /\ \E k \in 1..Len(info_logs) :
          info_logs[k].kind = "ERROR" /\ info_logs[k].msg = "report save error"


\* the check results of one subject under one of the names, in call order
C21_Results(subject, names) ==
    SelectSeq(CheckLines, LAMBDA l : l.subject = subject /\ l.check \in names)

\* presence passed and the value has a result of its own
C21_TwoResults(lines) ==
    /\ Len(lines) >= 2
    /\ lines[1].kind = "CHECK:OK"

C21_HasItem(entries, item_id) ==
    \E k \in 1..Len(entries) :
        Get(entries[k], "type", None) = S("item") /\ Get(entries[k], "itemId", None) = I(item_id)

\* main-reward-lines: the free action is in the catalog, award_1 of its row is
\* an item award and the action holds an award of that item
C21_MainPresent(action_id) ==
    LET requirement == DictGet(self.free_actions, action_id)
    IN  /\ DictHas(self.actions_by_id, action_id)
        /\ requirement.award_1_type = "item"
        /\ IsDigitStr(requirement.award_1_id)
        /\ requirement.award_1_qty # ""
        /\ C21_HasItem(Get(DictGet(self.actions_by_id, action_id), "awards", <<>>),
                       DigitsValue(requirement.award_1_id))

\* rfm-offers: the action of the offer is in the catalog and holds the points award
C21_RfmPresent(offer) ==
    LET req == DictGet(self.requirements_by_offer, offer)
    IN  /\ RfmActionId(req).ok
        /\ DictHas(self.actions_by_id, I(RfmActionId(req).v))
        /\ C21_HasItem(Get(DictGet(self.actions_by_id, I(RfmActionId(req).v)), "awards", <<>>),
                       17909)

\* shop-offers: the action is in the catalog, its row asks for a number of
\* points and the action holds the points award
C21_ShopPresent(action_id) ==
    LET req == DictGet(self.requirements_by_action_id, action_id)
    IN  /\ DictHas(self.actions_by_id, action_id)
        /\ IntOfStr(req["Award_points(17909)"]).ok
        /\ C21_HasItem(Get(DictGet(self.actions_by_id, action_id), "awards", <<>>), 17909)

C21_MainSeparate ==
    (variant = "main" /\ Validated /\ raised = "none") =>
        \A i \in 1..Len(self.free_actions) :
            C21_MainPresent(self.free_actions[i][1]) =>
                C21_TwoResults(C21_Results(self.free_actions[i][1],
                                           {"award item present", "award item count"}))

C21_RfmSeparate ==
    (variant = "rfm" /\ Validated /\ raised = "none") =>
        \A i \in 1..Len(self.requirements_by_offer) :
            C21_RfmPresent(self.requirements_by_offer[i][1]) =>
                C21_TwoResults(C21_Results(S(self.requirements_by_offer[i][1]),
                                           {"points in action award"}))

C21_ShopSeparate ==
    (variant = "shop" /\ Validated /\ raised = "none") =>
        \A i \in 1..Len(self.requirements_by_action_id) :
            C21_ShopPresent(self.requirements_by_action_id[i][1]) =>
                C21_TwoResults(C21_Results(self.requirements_by_action_id[i][1],
                                           {"award in action"}))

(* C21: whenever presence and value both apply to a nested entry (the entry *)
(* is present in the configuration record), two separate check results are *)
(* recorded for it, one for presence and one for value: a value mismatch on *)
(* a present entry is never reported through one combined result.           *)
C21_PresenceAndValueAreSeparate ==
    /\ C21_MainSeparate
    /\ C21_RfmSeparate
    /\ C21_ShopSeparate

\* the part of C21 the code keeps: main-reward-lines records presence and
\* count of an award as two results
C21_MainRecordsPresenceAndCount == C21_MainSeparate


C22_Key(req) == Strip(Get(req, "action", ""))

\* the rows of the table that carry an action id
C22_Identified == {j \in 1..Len(self.requirements) : C22_Key(self.requirements[j]) # ""}

\* the identified row at position j with the rows without an id that follow
\* it, in table order
C22_GroupOf(j) ==
    LET later == {k \in C22_Identified : k > j}
        last == IF later = {} THEN Len(self.requirements)
                ELSE (CHOOSE a \in later : \A b \in later : a <= b) - 1
    IN  SubSeq(self.requirements, j, last)

C22_Grouped == variant = "lottery" /\ pc # "init"

(* C22: grouped index of the lottery requirements: every row with an empty  *)
(* 'action' is attached, in table order, to the group of the nearest        *)
(* preceding row with an 'action'; rows before the first identified row are *)
(* dropped; every identified row with its continuation rows is in           *)
(* requirements_by_action_id after construction (no group is lost).         *)
C22_EveryGroupIsIndexed ==
    C22_Grouped =>
        /\ \A j \in C22_Identified :
              /\ DictHas(self.requirements_by_action_id, C22_Key(self.requirements[j]))
              /\ \E i \in 1..Len(self.requirements_by_action_id) :
                    self.requirements_by_action_id[i][2] = C22_GroupOf(j)
        /\ \A i \in 1..Len(self.requirements_by_action_id) :
              \E j \in C22_Identified :
                  self.requirements_by_action_id[i][2] = C22_GroupOf(j)

\* the part of C22 the code keeps: the index holds, for every action id of
\* the table, the group of the last row that carries the id, and nothing else
C22_LastGroupIsIndexed ==
    C22_Grouped =>
        /\ \A j \in C22_Identified :
              LET key == C22_Key(self.requirements[j])
                  same == {k \in C22_Identified : C22_Key(self.requirements[k]) = key}
                  last == CHOOSE a \in same : \A b \in same : b <= a
              IN  /\ DictHas(self.requirements_by_action_id, key)
                  /\ DictGet(self.requirements_by_action_id, key) = C22_GroupOf(last)
        /\ \A i \in 1..Len(self.requirements_by_action_id) :
              \E j \in C22_Identified :
                  /\ self.requirements_by_action_id[i][1] = C22_Key(self.requirements[j])
                  /\ self.requirements_by_action_id[i][2] = C22_GroupOf(j)


\* the two results that carry the tag NEED_ACTION_PRESENCE
C23_NeedActionPresence == {"needAction field present (paid)", "needAction parameter present"}

\* the checked field of a result: its check name, the two NEED_ACTION_PRESENCE
\* results being results on one field
C23_Field(check) == IF check \in C23_NeedActionPresence THEN "needAction present" ELSE check

C23_Repeated(fields) ==
    \E k \in 1..Len(CheckLines) : \E h \in 1..Len(CheckLines) :
        /\ k < h
        /\ CheckLines[k].subject = CheckLines[h].subject
        /\ C23_Field(CheckLines[k].check) = C23_Field(CheckLines[h].check)
        /\ C23_Field(CheckLines[k].check) \in fields

\* a paid action of the catalog that has no needAction
C23_PaidWithoutNeedAction(action_id) ==
    /\ DictHas(self.actions_by_id, action_id)
    /\ ~Truthy(Get(DictGet(self.actions_by_id, action_id), "needAction", S("")))

C23_FailedOn(subject, fields) ==
    CountIn(CheckLines, LAMBDA l : /\ l.kind = "CHECK:FAIL" /\ l.subject = subject
                                   /\ C23_Field(l.check) \in fields)

C23_MainDone == variant = "main" /\ Validated /\ raised = "none"

(* C23: every comparison produces exactly one check result per run: for     *)
(* each subject and each checked field log_check is called at most once in  *)
(* a full validate_all, so one misconfiguration (a paid action without      *)
(* needAction in main-reward-lines) adds exactly one to failed_checks.      *)
C23_OneResultPerComparison ==
    C23_MainDone =>
        /\ ~C23_Repeated({C23_Field(CheckLines[k].check) : k \in 1..Len(CheckLines)})
        /\ \A i \in 1..Len(self.paid_actions) :
              C23_PaidWithoutNeedAction(self.paid_actions[i][1]) =>
                  C23_FailedOn(self.paid_actions[i][1], {"needAction present"}) = 1

\* the part of C23 the code keeps: every field other than the presence of
\* needAction has one result per subject
C23_OneResultPerOtherField ==
    C23_MainDone =>
        ~C23_Repeated({C23_Field(CheckLines[k].check) : k \in 1..Len(CheckLines)}
                      \ {"needAction present"})


\* validate_end_news has run on a table with an 'end news' row and the
\* end-news promo has no ActionContain filter with the given compare
C24_FilterMissing(c) ==
    /\ variant = "end_news"
    /\ C18_HeaderAt("phase: end news window") # {}
    /\ DictHas(self.requirements_by_alias, "end news")
    /\ ~EndNewsFindFilter(Get(self.end_news_promo, "filters", <<>>), c).found

C24_ErrorLogged(msg) ==
    \E k \in 1..Len(info_logs) : info_logs[k].kind = "ERROR" /\ info_logs[k].msg = msg

C24_HasSeasonPassActions ==
    Get(Get(self.promo, "parameters", <<>>), "seasonPassActions", <<>>) # <<>>

\* the error for the missing filter is logged, the run does not raise, the
\* seasonPassActions comparison is made and the later phases are entered
C24_Continues(c) ==
    /\ raised = "none"
    /\ C24_ErrorLogged("no ActionContain filter with compare='" \o c \o "'")
    /\ C24_HasSeasonPassActions =>
          \E k \in 1..Len(CheckLines) : CheckLines[k].check = "not vs seasonPassActions"
    /\ Validated => /\ C18_HeaderAt("phase: double points window") # {}
                    /\ C18_HeaderAt("phase: exchange rate") # {}

(* C24: in validate_end_news, when the end-news promo has no ActionContain  *)
(* filter with compare='not' (or none with compare='any'), an error is      *)
(* logged for the missing filter and the run continues: the                 *)
(* seasonPassActions comparison and the later phases (double points,        *)
(* exchange rate, summary) still run and the run does not raise.            *)
C24_MissingFilterContinues ==
    /\ C24_FilterMissing("not") => C24_Continues("not")
    /\ C24_FilterMissing("any") => C24_Continues("any")

\* the part of C24 the code keeps: a missing 'any' filter, the 'not' filter
\* being there, is logged and the run continues
C24_MissingAnyFilterContinues ==
    (C24_FilterMissing("any") /\ ~C24_FilterMissing("not")) => C24_Continues("any")

\* a missing 'not' filter is logged and the run continues when the promo
\* carries no seasonPassActions
C24_MissingNotFilterWithoutSeasonPass ==
    (C24_FilterMissing("not") /\ ~C24_HasSeasonPassActions) => C24_Continues("not")


C25_Header == "phase: action and offer links"

\* the lines logged by validate_action_offer_links
C25_PhaseLines ==
    LET h == CHOOSE a \in C18_HeaderAt(C25_Header) : TRUE
        later == {k \in (h + 1)..Len(info_logs) : info_logs[k].kind = "HEADER"}
        last == IF later = {} THEN Len(info_logs)
                ELSE (CHOOSE a \in later : \A b \in later : a <= b) - 1
    IN  SubSeq(info_logs, h + 1, last)

C25_Checks(action_id) ==
    SelectSeq(C25_PhaseLines, LAMBDA l : IsCheckLine(l) /\ l.subject = action_id)

C25_Warnings(action_id) ==
    SelectSeq(C25_PhaseLines, LAMBDA l : l.kind = "WARNING" /\ l.subject = action_id)

C25_OfferExists == "offer in offers.json"

C25_OfferMatch == "action id of offer is the expected one"

C25_Link == {"offer has actionId", "well-formed actionId in offer", C25_OfferMatch}

C25_Price == {"offer price by packet_id", "USD price by packet_id found",
              "offer price (direct)", "USD price of offer defined"}

\* the offer check of the row is skipped by its alias (skip_offer_check)
C25_Exempt(req) == Get(req, "alias", "unknown") \in special_aliases

C25_NoOfferId(req) == Get(req, "Offer", "") = "" \/ ~IntOfStr(Get(req, "Offer", "")).ok

\* OFFER_EXISTS first and once, the link result second and only after
\* OFFER_EXISTS passed, a price result third and only after ACTION_OFFER_MATCH
C25_OrderedAndGated(lines) ==
    \A k \in 1..Len(lines) :
        /\ lines[k].check = C25_OfferExists <=> k = 1
        /\ lines[k].check \in C25_Link =>
              /\ k = 2
              /\ lines[1].kind = "CHECK:OK"
        /\ lines[k].check \in C25_Price =>
              /\ k = 3
              /\ lines[2].check = C25_OfferMatch
        /\ lines[k].check \in {C25_OfferExists} \cup C25_Link \cup C25_Price

C25_LinksDone == variant = "shop" /\ raised = "none" /\ C18_HeaderAt(C25_Header) # {}

\* C25 as it is written: every row without a numeric Offer id is warned about
C25_OfferChecksGatedEveryRowWarned ==
    C25_LinksDone =>
        \A i \in 1..Len(self.requirements_by_action_id) :
            LET action_id == self.requirements_by_action_id[i][1]
                req == self.requirements_by_action_id[i][2]
            IN  /\ C25_OrderedAndGated(C25_Checks(action_id))
                /\ C25_NoOfferId(req) =>
                      /\ C25_Checks(action_id) = <<>>
                      /\ Len(C25_Warnings(action_id)) = 1

(* C25: in validate_action_offer_links of shop-offers the checks of one     *)
(* requirement row are ordered and gated: OFFER_EXISTS is recorded first;   *)
(* ACTION_ID_IN_OFFER / ACTION_OFFER_MATCH only after OFFER_EXISTS passed;  *)
(* a price check only after an ACTION_OFFER_MATCH result of the row; a row  *)
(* with a missing or non-numeric Offer id gets a warning and no check       *)
(* result, unless its alias is exempted by skip_offer_check: then the row   *)
(* gets neither a check result nor a warning.                               *)
C25_OfferChecksOrderedAndGated ==
    C25_LinksDone =>
        \A i \in 1..Len(self.requirements_by_action_id) :
            LET action_id == self.requirements_by_action_id[i][1]
                req == self.requirements_by_action_id[i][2]
            IN  /\ C25_OrderedAndGated(C25_Checks(action_id))
                /\ C25_Exempt(req) =>
                      /\ C25_Checks(action_id) = <<>>
                      /\ C25_Warnings(action_id) = <<>>
                /\ (~C25_Exempt(req) /\ C25_NoOfferId(req)) =>
                      /\ C25_Checks(action_id) = <<>>
                      /\ Len(C25_Warnings(action_id)) = 1
                /\ (~C25_Exempt(req) /\ ~C25_NoOfferId(req)) =>
                      Len(C25_Checks(action_id)) >= 1

\* one row went through OFFER_EXISTS, ACTION_OFFER_MATCH and a price check,
\* another row has a non-numeric Offer id and was warned about
C25_Witness ==
    /\ C25_LinksDone
    /\ Validated
    /\ \E i, j \in 1..Len(self.requirements_by_action_id) :
          /\ Len(C25_Checks(self.requirements_by_action_id[i][1])) = 3
          /\ C25_Checks(self.requirements_by_action_id[i][1])[3].check \in C25_Price
          /\ self.requirements_by_action_id[j][2]["Offer"] = "7o1"
          /\ Len(C25_Warnings(self.requirements_by_action_id[j][1])) = 1


\* a free action of the catalog whose row holds the value 0 in 'needResources (17886)'
C26_ZeroNeedResources(action_id) ==
    LET requirement == DictGet(self.free_actions, action_id)
    IN  /\ DictHas(self.actions_by_id, action_id)
        /\ requirement.needResources_17886 = "0"

C26_Absence(action_id) ==
    C21_Results(action_id, {"needResources 17886 absent at value 0"})

C26_Has17886(action_id) ==
    C21_HasItem(Get(DictGet(self.actions_by_id, action_id), "needResources", <<>>), 17886)

(* C26: in validate_action_content of main-reward-lines, when the column    *)
(* 'needResources (17886)' of a free action holds the value 0, a check      *)
(* result 'absence of needResources with itemId 17886' is recorded, which   *)
(* passes iff the action has no needResources entry of type item with       *)
(* itemId 17886.                                                            *)
C26_ZeroMeansAbsenceChecked ==
    C23_MainDone =>
        \A i \in 1..Len(self.free_actions) :
            C26_ZeroNeedResources(self.free_actions[i][1]) =>
                /\ Len(C26_Absence(self.free_actions[i][1])) = 1
                /\ C26_Absence(self.free_actions[i][1])[1].kind = "CHECK:OK"
                      <=> ~C26_Has17886(self.free_actions[i][1])

\* what the code does at the value 0: no result on needResources at all
C26_ZeroMeansNoNeedResourcesResult ==
    C23_MainDone =>
        \A i \in 1..Len(self.free_actions) :
            C26_ZeroNeedResources(self.free_actions[i][1]) =>
                C21_Results(self.free_actions[i][1],
                            {"needResources 17886 absent at value 0",
                             "needResources 17886 present", "needResources count"}) = <<>>


\* the rows of the groups whose action is in the actions config with award
\* packets, in the order validate_actions_content takes them
C27_CheckedRows ==
    LET idx == self.requirements_by_action_id
        rows(i) ==
            LET packets == IF DictHas(self.actions_by_id, idx[i][1])
                           THEN Get(DictGet(self.actions_by_id, idx[i][1]), "awardPackets", <<>>)
                           ELSE <<>>
            IN  IF packets = <<>> THEN <<>>
                ELSE [r \in 1..Len(idx[i][2]) |-> [packets |-> packets, req |-> idx[i][2][r]]]
    IN  Concat([i \in 1..Len(idx) |-> rows(i)])

\* the field of the award that carries its id
C27_IdOf(award) ==
    IF Lower(Get(award, "type", S("")).v) = "buff"
    THEN StrOf(Get(award, "id", S("")))
    ELSE StrOf(Get(award, "itemId", S("")))

\* some packet has the probability of the row and an award that matches
\* every field of the row that is not empty
C27_Passes(packets, req) ==
    \E p \in 1..Len(packets) :
        /\ StrOf(Get(packets[p], "probability", S(""))) = req.probability
        /\ \E a \in 1..Len(Get(packets[p], "awards", <<>>)) :
              LET award == Get(packets[p], "awards", <<>>)[a]
              IN  /\ req.type # "" => Lower(Get(award, "type", S("")).v) = Lower(req.type)
                  /\ req.count # "" => StrOf(Get(award, "count", S(""))) = req.count
                  /\ req.itemId # "" => C27_IdOf(award) = req.itemId

C27_ContentDone ==
    /\ variant = "lottery"
    /\ raised = "none"
    /\ C18_HeaderAt("phase: actions content") # {}

(* C27: in the lottery validator the award check of a requirement row       *)
(* passes iff some award packet of the action has a probability whose       *)
(* string form equals the probability of the row and holds an award that    *)
(* matches every non-empty field of the row (type without regard to case,   *)
(* count as string, id from 'id' for buff awards and from 'itemId'          *)
(* otherwise); empty fields match anything; one check result is recorded    *)
(* per requirement row that is checked against award packets.               *)
C27_AwardCheckPassesIffPacketMatches ==
    C27_ContentDone =>
        LET lines == C18_PhaseChecks("phase: actions content")
        IN  /\ Len(lines) = Len(C27_CheckedRows)
            /\ \A k \in 1..Len(lines) :
                  lines[k].kind = "CHECK:OK"
                      <=> C27_Passes(C27_CheckedRows[k].packets, C27_CheckedRows[k].req)

\* a buff row matched through the 'id' of the award with its empty fields
\* as wildcards, and a row that no award matches, one result each
C27_Witness ==
    /\ C27_ContentDone
    /\ \E i, j \in 1..Len(C27_CheckedRows) :
          /\ C27_CheckedRows[i].req.type = "Buff"
          /\ C27_CheckedRows[i].req.count = ""
          /\ C18_PhaseChecks("phase: actions content")[i].kind = "CHECK:OK"
          /\ C18_PhaseChecks("phase: actions content")[j].kind = "CHECK:FAIL"


\* the offer records of the 'offers' structure of offers.json
C28_OfferRecords ==
    IF "offers" \in DOMAIN self.offers THEN Concat(Concat(self.offers["offers"])) ELSE <<>>

C28_PriceEntries ==
    IF "prices" \in DOMAIN self.offers THEN self.offers["prices"] ELSE <<>>

C28_WithId(q, id) == {q[k] : k \in {j \in 1..Len(q) : "id_at" \in DOMAIN q[j] /\ q[j]["id_at"] = id}}

\* the Offer ids that validate_action_offer_links looks up
C28_LookedUp ==
    {I(IntOfStr(Get(self.requirements_by_action_id[i][2], "Offer", "")).v) :
        i \in {j \in 1..Len(self.requirements_by_action_id) :
                 LET req == self.requirements_by_action_id[j][2]
                 IN  /\ Get(req, "alias", "unknown") \notin special_aliases
                     /\ Get(req, "Offer", "") # ""
                     /\ IntOfStr(Get(req, "Offer", "")).ok}}

(* C28: in the shop validator the lookup of a requirement's Offer id in     *)
(* offers_by_id returns the offer record with that '@id' whenever the       *)
(* offers structure has one; an entry of 'prices' with the same '@id' never *)
(* replaces it.                                                             *)
C28_LookupReturnsOfferRecord ==
    C25_LinksDone =>
        \A id \in C28_LookedUp :
            C28_WithId(C28_OfferRecords, id) # {}
                => /\ DictHas(self.offers_by_id, id)
                   /\ DictGet(self.offers_by_id, id) \in C28_WithId(C28_OfferRecords, id)

\* the part that the code keeps: no entry of 'prices' carries the '@id'
C28_LookupReturnsOfferRecordUnlessPriced ==
    C25_LinksDone =>
        \A id \in C28_LookedUp :
            C28_WithId(C28_OfferRecords, id) # {} /\ C28_WithId(C28_PriceEntries, id) = {}
                => /\ DictHas(self.offers_by_id, id)
                   /\ DictGet(self.offers_by_id, id) \in C28_WithId(C28_OfferRecords, id)

\* offer 702 names action 603, and the actionId check of action 603 is made
\* against the entry of 'prices' with '@id' 702, which has no actionId
C28_PriceEntryShadowsOffer ==
    /\ C25_LinksDone
    /\ I(702) \in C28_LookedUp
    /\ ShopOffer702 \in C28_WithId(C28_OfferRecords, I(702))
    /\ DictGet(self.offers_by_id, I(702)) \in C28_WithId(C28_PriceEntries, I(702))
    /\ \E k \in 1..Len(C25_Checks(I(603))) :
          /\ C25_Checks(I(603))[k].check = "offer has actionId"
          /\ C25_Checks(I(603))[k].kind = "CHECK:FAIL"


C29_Check == "promo award in requirements"

\* the results recorded by the 'promo award present in requirements' check
C29_Results == SelectSeq(info_logs, LAMBDA l : IsCheckLine(l) /\ l.check = C29_Check)

\* the failures recorded under the tag of the check in the per-subject map
C29_TaggedFailures ==
    {i \in 1..Len(error_map) :
        \E k \in 1..Len(error_map[i][2]) :
            error_map[i][2][k].tag = "PROMO_AWARD_IN_REQUIREMENTS"}

(* C29: in the main reward lines validator the check 'promo award present   *)
(* in requirements' (tag PROMO_AWARD_IN_REQUIREMENTS) never fails: every    *)
(* result recorded for it is a pass, since promo award ids that are not in  *)
(* the requirements table are skipped with an info message.                 *)
C29_PromoAwardCheckNeverFails ==
    variant = "main" =>
        /\ \A k \in 1..Len(C29_Results) : C29_Results[k].kind = "CHECK:OK"
        /\ C29_TaggedFailures = {}

\* one promo award id is in the requirements table and has its result, another
\* is not in the table and is skipped with the info message
C29_Witness ==
    /\ variant = "main"
    /\ raised = "none"
    /\ pc = "done"
    /\ C29_Results # <<>>
    /\ \E k \in 1..Len(self.promo_action_ids) :
          /\ ~DictHas(self.free_actions, self.promo_action_ids[k])
          /\ ~DictHas(self.paid_actions, self.promo_action_ids[k])
    /\ \E k \in 1..Len(info_logs) :
          /\ info_logs[k].kind = "INFO"
          /\ info_logs[k].msg = "promo award not in requirements table"


C30_Count(kind) == CountIn(info_logs, LAMBDA l : l.kind = kind)

\* the counters and the two logs say the same
C30_CountersMatchLogs ==
    /\ C30_Count("CHECK:FAIL") = stats.failed_checks
    /\ C30_Count("CHECK:OK") = stats.passed_checks
    /\ CountIn(MapEntries(error_map), IsCheckEntry) = stats.failed_checks
    /\ stats.warning_checks = Len(warnings)

\* a call of log_check appends one check line as the last line of info_logs,
\* with one more entry in the map on failure; no other call adds a check line
C30_OneLinePerCall ==
    IF stats'.total_checks # stats.total_checks
    THEN /\ Len(info_logs') = Len(info_logs) + 1
         /\ SubSeq(info_logs', 1, Len(info_logs)) = info_logs
         /\ IsCheckLine(info_logs'[Len(info_logs')])
         /\ Len(MapEntries(error_map')) = Len(MapEntries(error_map))
                + (IF info_logs'[Len(info_logs')].kind = "CHECK:FAIL" THEN 1 ELSE 0)
    ELSE SelectSeq(info_logs', IsCheckLine) = CheckLines

(* C30: log and ledger correspond after any sequence of calls: info_logs    *)
(* holds one [CHECK:OK] or [CHECK:FAIL] line per log_check call, in call    *)
(* order; the [CHECK:FAIL] lines are as many as failed_checks, the          *)
(* [CHECK:OK] lines as many as passed_checks, the entries log_check added   *)
(* to the per-subject error map as many as failed_checks, and               *)
(* warning_checks is the length of the warnings list.                       *)
C30_LogAndLedgerCorrespond ==
    [][C30_OneLinePerCall]_vars /\ [](C30_CountersMatchLogs)

\* a passed check, a warning with a subject and a failed check, in the
\* validator whose map takes the entries of warnings too
C30_Witness ==
    /\ pc = "ledger"
    /\ variant = "shop"
    /\ Len(info_logs) = 3
    /\ info_logs[1].kind = "CHECK:OK"
    /\ info_logs[2].kind = "WARNING"
    /\ info_logs[3].kind = "CHECK:FAIL"
    /\ Len(MapEntries(error_map)) = 2
    /\ stats.failed_checks = 1
    /\ stats.passed_checks = 1
    /\ stats.warning_checks = 1

=============================================================================
